---------------------------- MODULE Spec2Model ----------------------------
(***************************************************************************)
(* A model of the enterprise knowledge assistant: the MCP tool framework   *)
(* (src/mcp), the in-memory calendar tool, the Knowledge Agent's tool      *)
(* dispatch (single and composite) and the LangGraph workflow              *)
(* (src/agents/workflow.py) as driven by the HTTP routes.                  *)
(*                                                                         *)
(* Python values are modelled as tagged records so that isinstance tests   *)
(* and dictionary traversal can be written as the code writes them:        *)
(*   S(x)  a str            B(b)  a bool          None  the None object    *)
(*   D(f)  a dict, f a function from key strings to values                 *)
(*   L(q)  a list, q a sequence of values                                  *)
(*   IdV(n, t)  the str f"event_{n}_{t}" (n an int, t a clock reading; the *)
(*              text determines n and t, so two ids are equal exactly when *)
(*              both parts are)                                            *)
(*   Fmt(q)     an f-string, q the sequence of its parts                   *)
(* Chinese literals of the source are written in ASCII; the comment at     *)
(* each definition gives the source literal.                               *)
(***************************************************************************)
EXTENDS Integers, Sequences, FiniteSets, TLC

VARIABLES
    events,      \* CalendarEventTool.events of the process-wide calendar tool
    clock,       \* the reading datetime.now() returns at this moment
    calResult,   \* outcome of the last CalendarEventTool.execute call
    node,        \* the workflow node the chat request is about to run
    state,       \* the AgentState of the chat request
    path,        \* the nodes this chat request has run, in order
    run,         \* what the agent of action_execution did in this request
    toolCall,    \* the /tools/execute request just answered
    upload,      \* the upload handler, the intake directory and the indexing tasks
    models,      \* the ModelManager class, its instance and the threads using it
    cache,       \* a SimpleCache, the time and the outcome of the last call on it
    call         \* the last call of a pure function of the agent: input and output

calVars == <<events, clock, calResult>>

flowVars == <<node, state, path, run>>

\* the variables the calendar, the workflow and /tools/execute never touch
restVars == <<upload, models, cache, call>>

\* the variables of the calendar, the workflow and /tools/execute
coreVars == <<events, clock, calResult, node, state, path, run, toolCall>>

vars == <<events, clock, calResult, node, state, path, run, toolCall,
          upload, models, cache, call>>

----------------------------------------------------------------------------
(* Bounds of the model *)

\* largest number of events the calendar list is allowed to grow to
MaxEvents == 2
\* largest clock reading; the clock may stand still between two calls
MaxClock == 1

----------------------------------------------------------------------------
(* Python values *)

S(x) == [tag |-> "str", s |-> x]
B(b) == [tag |-> "bool", b |-> b]
I(n) == [tag |-> "int", n |-> n]
None == [tag |-> "none"]
D(f) == [tag |-> "dict", kv |-> f]
L(q) == [tag |-> "list", items |-> q]
IdV(n, t) == [tag |-> "id", n |-> n, t |-> t]
TimeV(t) == [tag |-> "time", t |-> t]
Fmt(q) == [tag |-> "fmt", parts |-> q]

EmptyMap == [k \in {} |-> None]

\* dict.get(key, default)
Get(f, key, default) == IF key \in DOMAIN f THEN f[key] ELSE default

\* Python truthiness of a value (None, "", [], {} and False are falsy)
Truthy(v) ==
    CASE v.tag = "none" -> FALSE
      [] v.tag = "bool" -> v.b
      [] v.tag = "str"  -> v.s # ""
      [] v.tag = "list" -> Len(v.items) > 0
      [] v.tag = "dict" -> DOMAIN v.kv # {}
      [] OTHER -> TRUE

\* `a or b`
Or(a, b) == IF Truthy(a) THEN a ELSE b

\* the function f without the key k
Without(f, k) == [x \in DOMAIN f \ {k} |-> f[x]]

\* f with f[k] = v added or replaced
With(f, k, v) == [x \in DOMAIN f \cup {k} |-> IF x = k THEN v ELSE f[x]]

Range(q) == {q[i] : i \in DOMAIN q}

\* the sequence q without its i-th element
RemoveAt(q, i) == [j \in 1..(Len(q) - 1) |-> IF j < i THEN q[j] ELSE q[j + 1]]

\* outcome of a call: a returned value or a raised exception
Returned(v) == [raised |-> FALSE, value |-> v]
Raised(msg) == [raised |-> TRUE, error |-> msg]

----------------------------------------------------------------------------
(* Text: a str is the sequence of its characters; a character outside ASCII *)
(* is written u and its code point                                          *)

UpperCase == <<"A", "B", "C", "D", "E", "F", "G", "H", "I", "J", "K", "L", "M",
               "N", "O", "P", "Q", "R", "S", "T", "U", "V", "W", "X", "Y", "Z">>
LowerCase == <<"a", "b", "c", "d", "e", "f", "g", "h", "i", "j", "k", "l", "m",
               "n", "o", "p", "q", "r", "s", "t", "u", "v", "w", "x", "y", "z">>

\* str.lower() of one character
LowerChar(c) ==
    IF \E i \in DOMAIN UpperCase : UpperCase[i] = c
    THEN LowerCase[CHOOSE i \in DOMAIN UpperCase : UpperCase[i] = c]
    ELSE c

\* str.lower()
Lower(text) == [i \in DOMAIN text |-> LowerChar(text[i])]

\* `word in text`
Contains(text, word) ==
    \E i \in 1..(Len(text) - Len(word) + 1) :
        SubSeq(text, i, i + Len(word) - 1) = word

\* the concatenation of the texts of a sequence
RECURSIVE Concat(_)
Concat(texts) == IF texts = <<>> THEN <<>> ELSE Head(texts) \o Concat(Tail(texts))

\* the digits
DigitChars == <<"0", "1", "2", "3", "4", "5", "6", "7", "8", "9">>

\* the characters \d matches
IsDigit(c) == \E i \in DOMAIN DigitChars : DigitChars[i] = c

\* int() of one digit
DigitValue(c) == (CHOOSE i \in DOMAIN DigitChars : DigitChars[i] = c) - 1

\* int() of a run of one or two digits
IntOf(digits) ==
    IF Len(digits) = 1 THEN DigitValue(digits[1])
    ELSE 10 * DigitValue(digits[1]) + DigitValue(digits[2])

\* str() of a number below 100
Digits(n) ==
    IF n < 10 THEN <<DigitChars[n + 1]>>
    ELSE <<DigitChars[(n \div 10) + 1], DigitChars[(n % 10) + 1]>>

----------------------------------------------------------------------------
(* CalendarEventTool, src/src/mcp/calendar_tools.py *)

\* index of the first event whose id is event_id, 0 when there is none:
\* next((e for e in self.events if e["id"] == event_id), None)
FirstWithId(evs, event_id) ==
    IF \E i \in DOMAIN evs : evs[i].id = event_id
    THEN CHOOSE i \in DOMAIN evs :
            /\ evs[i].id = event_id
            /\ \A j \in DOMAIN evs : evs[j].id = event_id => i <= j
    ELSE 0

\* index list.remove(x) removes: the first element equal to x
FirstEqual(evs, x) ==
    CHOOSE i \in DOMAIN evs :
        /\ evs[i] = x
        /\ \A j \in DOMAIN evs : evs[j] = x => i <= j

\* event_id = f"event_{len(self.events) + 1}_{datetime.now().timestamp()}"
NewEventId(evs, now) == IdV(Len(evs) + 1, now)

\* _create_event: the event dict built from the keyword arguments
NewEvent(evs, kw, now) ==
    [id          |-> NewEventId(evs, now),
     title       |-> kw["title"],
     start_time  |-> kw["start_time"],
     end_time    |-> kw["end_time"],
     description |-> Or(Get(kw, "description", None), S("")),
     location    |-> Or(Get(kw, "location", None), S("")),
     attendees   |-> Or(Get(kw, "attendees", None), L(<<>>)),
     created_at  |-> TimeV(now)]

\* _create_event: [out |-> what the call returns, events |-> the list after]
CreateEvent(evs, kw, now) ==
    LET event == NewEvent(evs, kw, now)
    IN  [out |-> Returned(D([action   |-> S("create"),
                             event_id |-> event.id,
                             event    |-> D(event),
                             status   |-> S("created")])),
         events |-> Append(evs, event)]

\* _list_events without date_filter (events = self.events.copy())
ListEvents(evs) ==
    [out |-> Returned(D([action      |-> S("list"),
                         events      |-> L([i \in DOMAIN evs |-> D(evs[i])]),
                         total_count |-> I(Len(evs)),
                         date_filter |-> None])),
     events |-> evs]

UpdatableFields == <<"title", "start_time", "end_time", "description", "location", "attendees">>

\* the updatable fields present in kw, in the order of updatable_fields
UpdatedFields(kw) == SelectSeq(UpdatableFields, LAMBDA f : f \in DOMAIN kw)

\* a sequence of strings as a Python list of str
StrList(q) == L([i \in DOMAIN q |-> S(q[i])])

\* _update_event
UpdateEvent(evs, kw, now) ==
    LET i == FirstWithId(evs, kw["event_id"])
    IN  IF i = 0
        THEN [out |-> Raised("event not found"), events |-> evs]
        ELSE LET old == evs[i]
                 upd == [f \in DOMAIN old \cup {"updated_at"} |->
                            IF f = "updated_at" THEN TimeV(now)
                            ELSE IF f \in Range(UpdatableFields) /\ f \in DOMAIN kw
                                 THEN kw[f] ELSE old[f]]
             IN  [out |-> Returned(D([action         |-> S("update"),
                                      event_id       |-> kw["event_id"],
                                      updated_fields |-> StrList(UpdatedFields(kw)),
                                      event          |-> D(upd),
                                      status         |-> S("updated")])),
                  events |-> [evs EXCEPT ![i] = upd]]

\* _delete_event
DeleteEvent(evs, kw) ==
    LET i == FirstWithId(evs, kw["event_id"])
    IN  IF i = 0
        THEN [out |-> Raised("event not found"), events |-> evs]
        ELSE [out |-> Returned(D([action   |-> S("delete"),
                                  event_id |-> kw["event_id"],
                                  status   |-> S("deleted")])),
              events |-> RemoveAt(evs, FirstEqual(evs, evs[i]))]

\* CalendarEventTool.execute(action, **kwargs)
CalendarExecute(evs, action, kw, now) ==
    CASE action = "create" ->
            IF \E r \in {"title", "start_time", "end_time"} : r \notin DOMAIN kw
            THEN [out |-> Raised("missing required parameter"), events |-> evs]
            ELSE CreateEvent(evs, kw, now)
      [] action = "list" -> ListEvents(evs)
      [] action = "update" ->
            IF "event_id" \notin DOMAIN kw
            THEN [out |-> Raised("missing required parameter"), events |-> evs]
            ELSE UpdateEvent(evs, kw, now)
      [] action = "delete" ->
            IF "event_id" \notin DOMAIN kw
            THEN [out |-> Raised("missing required parameter"), events |-> evs]
            ELSE DeleteEvent(evs, kw)
      [] OTHER -> [out |-> Raised("unsupported action"), events |-> evs]


----------------------------------------------------------------------------
(* The tool framework: BaseMCPTool.safe_execute and the three collections *)

FileToolNames == {"file_search", "file_read", "file_write"}
EmailToolNames == {"email_send", "email_template"}
CalendarToolNames == {"calendar_event", "smart_scheduling"}

\* the tool map of KnowledgeAgent._init_tools, and the categories of routes.py
ToolCategories == {"file", "email", "calendar"}

\* self.tools of the collection of a category
ToolsOf(category) ==
    CASE category = "file" -> FileToolNames
      [] category = "email" -> EmailToolNames
      [] category = "calendar" -> CalendarToolNames
      [] OTHER -> {}

\* the parameters of each tool's execute without a default value
RequiredArgs(name) ==
    CASE name = "file_search" -> {"directory"}
      [] name = "file_read" -> {"file_path"}
      [] name = "file_write" -> {"file_path", "content"}
      [] name = "email_send" ->
            {"to_addresses", "subject", "body", "sender_email", "sender_password"}
      [] name = "email_template" -> {"template_name", "template_vars"}
      [] name = "calendar_event" -> {"action"}
      [] name = "smart_scheduling" -> {"attendees", "preferred_date"}
      [] OTHER -> {}

\* the parameters of each tool's execute that have a default value
OptionalArgs(name) ==
    CASE name = "file_search" -> {"filename_pattern", "file_extension", "recursive"}
      [] name = "file_read" -> {"encoding", "max_size"}
      [] name = "file_write" -> {"encoding", "append"}
      [] name = "email_send" -> {"cc_addresses"}
      [] name = "smart_scheduling" -> {"duration_minutes", "time_range"}
      [] OTHER -> {}

\* whether execute takes **kwargs and so accepts any further keyword
TakesAnyKeyword(name) == name \in {"calendar_event", "smart_scheduling"}

\* Python's binding of **kw to the parameters of execute: a TypeError when a
\* required parameter is missing or a keyword is not a parameter
BindsTo(name, kw) ==
    /\ RequiredArgs(name) \subseteq DOMAIN kw
    /\ TakesAnyKeyword(name)
         \/ DOMAIN kw \subseteq RequiredArgs(name) \cup OptionalArgs(name)

\* the str an action argument holds ("?" for a value that is no str)
StrOf(v) == IF v.tag = "str" THEN v.s ELSE "?"

\* EmailSendTool.execute: building the message raises on a body that is no
\* str; then the SMTP exchange succeeds (ext = "ok") or any of its failure
\* paths returns False
EmailSendExecute(kw, ext) ==
    IF kw["body"].tag # "str" \/ kw["to_addresses"].tag # "list"
    THEN Raised("TypeError: not a str")
    ELSE IF ext = "ok"
    THEN Returned(D([status       |-> S("sent"),
                     to_addresses |-> kw["to_addresses"],
                     cc_addresses |-> Or(Get(kw, "cc_addresses", None), L(<<>>)),
                     subject      |-> kw["subject"],
                     message_id   |-> None]))
    ELSE Returned(B(FALSE))

\* EmailTemplateTool.execute: an unknown template name or a missing template
\* variable (ext = "fail") raises ValueError
EmailTemplateExecute(kw, ext) ==
    IF ext = "ok"
    THEN Returned(D([template_name  |-> kw["template_name"],
                     subject        |-> Fmt(<<"subject of", kw["template_name"]>>),
                     body           |-> Fmt(<<"body of", kw["template_name"]>>),
                     variables_used |-> L(<<>>)]))
    ELSE Raised("ValueError: template")

\* the file tools: the file system answers (ext = "ok") or the path is
\* missing, too large or unreadable (ext = "fail") and execute raises
FileExecute(name, kw, ext) ==
    IF ext = "ok"
    THEN Returned(D([tool |-> S(name)] @@ kw))
    ELSE Raised("FileNotFoundError")

\* the last hour of the day, the largest start_hour and end_hour of the
\* tool's schema
LastHour == 23

\* f"{n:02d}"
TwoDigits(n) == <<DigitChars[(n \div 10) + 1], DigitChars[(n % 10) + 1]>>

\* f"{hour:02d}:{minutes:02d}:00", the part of start_time after the "T"
ClockText(hour, minutes) ==
    TwoDigits(hour) \o <<":">> \o TwoDigits(minutes) \o <<":", "0", "0">>

\* the place of a character of a clock text in the order of the code points:
\* the digits, then the colon
CharRank(c) == IF IsDigit(c) THEN DigitValue(c) ELSE 10

\* `a < b` on two str
RECURSIVE TextLess(_, _)
TextLess(a, b) ==
    IF b = <<>> THEN FALSE
    ELSE IF a = <<>> THEN TRUE
    ELSE IF Head(a) # Head(b) THEN CharRank(Head(a)) < CharRank(Head(b))
    ELSE TextLess(Tail(a), Tail(b))

\* a variant: a slot has to end before the end of the range
EndsBefore(current_hour, minutes, duration_minutes, end_hour) ==
    current_hour * 60 + minutes + duration_minutes < end_hour * 60

\* `current_hour * 60 + minutes + duration_minutes <= end_hour * 60`
Fits(current_hour, minutes, duration_minutes, end_hour) ==
    current_hour * 60 + minutes + duration_minutes <= end_hour * 60

\* the slot appended for current_hour and minutes; end_time is the isoformat
\* of the start plus the duration
Slot(preferred_date, current_hour, minutes, duration_minutes) ==
    D([start_time       |-> [tag |-> "datetime", date |-> preferred_date,
                             clock |-> ClockText(current_hour, minutes)],
       end_time         |-> [tag |-> "datetime", date |-> preferred_date,
                             clock |-> ClockText(
                                 (current_hour * 60 + minutes + duration_minutes) \div 60,
                                 (current_hour * 60 + minutes + duration_minutes) % 60)],
       duration_minutes |-> I(duration_minutes)])

\* the slots the while loop appends from current_hour on, `for minutes in
\* [0, 30]` inside it
RECURSIVE SlotsFrom(_, _, _, _)
SlotsFrom(current_hour, end_hour, duration_minutes, preferred_date) ==
    IF ~(current_hour < end_hour) THEN <<>>
    ELSE (IF Fits(current_hour, 0, duration_minutes, end_hour)
          THEN <<Slot(preferred_date, current_hour, 0, duration_minutes)>> ELSE <<>>)
           \o (IF Fits(current_hour, 30, duration_minutes, end_hour)
               THEN <<Slot(preferred_date, current_hour, 30, duration_minutes)>> ELSE <<>>)
           \o SlotsFrom(current_hour + 1, end_hour, duration_minutes, preferred_date)

\* next((slot for slot in available_slots if slot["start_time"].split("T")[1]
\* < "12:00:00"), available_slots[0] if available_slots else None)
RecommendedSlot(slots) ==
    LET Morning(i) == TextLess(slots[i].kv["start_time"].clock, ClockText(12, 0))
    IN  IF \E i \in DOMAIN slots : Morning(i)
        THEN slots[CHOOSE i \in DOMAIN slots :
                      Morning(i) /\ \A j \in 1..(i - 1) : ~Morning(j)]
        ELSE IF slots # <<>> THEN slots[1] ELSE None

\* SchedulingTool.execute(attendees, preferred_date, duration_minutes,
\* time_range): the dict returned
ScheduleMeeting(attendees, preferred_date, duration_minutes, time_range) ==
    LET Result(slots) ==
            D([attendees        |-> attendees,
               preferred_date   |-> preferred_date,
               available_slots  |-> L(SubSeq(slots, 1, IF Len(slots) < 5 THEN Len(slots)
                                                       ELSE 5)),
               recommended_slot |-> RecommendedSlot(slots),
               total_available  |-> I(Len(slots))])
        Range2(tr) ==
            Result(SlotsFrom(tr.start_hour, tr.end_hour, duration_minutes, preferred_date))
    IN  Range2(IF time_range = None THEN [start_hour |-> 9, end_hour |-> 17]
               ELSE time_range)

\* SchedulingTool.execute(**kw)
SchedulingExecute(kw) ==
    Returned(ScheduleMeeting(kw["attendees"], kw["preferred_date"],
                             IF "duration_minutes" \in DOMAIN kw
                             THEN kw["duration_minutes"].n ELSE 60,
                             IF "time_range" \in DOMAIN kw
                             THEN kw["time_range"] ELSE None))

\* tool.execute(**kw) of the tool registered under name:
\* [out |-> returned or raised, events |-> the calendar list afterwards]
ToolExecute(name, kw, evs, now, ext) ==
    IF ~BindsTo(name, kw)
    THEN [out |-> Raised("TypeError"), events |-> evs]
    ELSE CASE name = "calendar_event" ->
                CalendarExecute(evs, StrOf(kw["action"]), Without(kw, "action"), now)
           [] name = "smart_scheduling" -> [out |-> SchedulingExecute(kw), events |-> evs]
           [] name = "email_send" -> [out |-> EmailSendExecute(kw, ext), events |-> evs]
           [] name = "email_template" -> [out |-> EmailTemplateExecute(kw, ext), events |-> evs]
           [] OTHER -> [out |-> FileExecute(name, kw, ext), events |-> evs]

\* BaseMCPTool.safe_execute: the envelope made of what execute did
SafeExecute(name, out) ==
    IF out.raised
    THEN D([success |-> B(FALSE), error |-> S(out.error), tool_name |-> S(name)])
    ELSE D([success |-> B(TRUE), result |-> out.value, tool_name |-> S(name)])

\* FileTools / EmailTools / CalendarTools .execute_tool(tool_name, **kw):
\* [out |-> returned envelope or raised, events |-> the calendar list afterwards]
CollectionExecuteTool(category, tool_name, kw, evs, now, ext) ==
    IF {"self", "tool_name"} \cap DOMAIN kw # {}
    THEN [out |-> Raised("TypeError: multiple values for argument"), events |-> evs]
    ELSE IF tool_name \notin ToolsOf(category)
    THEN [out |-> Raised("ValueError: unknown tool"), events |-> evs]
    ELSE LET Envelope(r) == [out |-> Returned(SafeExecute(tool_name, r.out)),
                             events |-> r.events]
         IN  Envelope(ToolExecute(tool_name, kw, evs, now, ext))

----------------------------------------------------------------------------
(* KnowledgeAgent: parameter defaulting and tool dispatch,                  *)
(* src/src/agents/knowledge_agent.py                                        *)

\* config/settings.py: email_sender, email_password, default_recipient
EmailSender == S("208621381@qq.com")
EmailPassword == S("lgntvtzvjpzbbibc")
DefaultRecipient == S("example@company.com")

\* the str "a|b|c" whose split("|") gives the segments segs
Piped(segs) == [tag |-> "piped", segs |-> segs]

\* str.strip() on the category segments the model uses
Strip(seg) == IF seg = " email" THEN "email" ELSE seg

\* dict.setdefault(key, v)
SetDefault(f, key, v) == IF key \in DOMAIN f THEN f ELSE With(f, key, v)

\* `params.get(key) in (None, "", "__AUTO__")`
IsAuto(f, key) == Get(f, key, None) \in {None, S(""), S("__AUTO__")}

\* the per-category defaulting of _extract_tool_parameters
ParameterDefaults(params, category) ==
    CASE category = "calendar" ->
            LET Action(p1) == With(p1, "action", Get(p1, "action", S("create")))
            IN  Action(SetDefault(params, "tool_name", S("calendar_event")))
      [] category = "email" ->
            LET Password(p3) == IF IsAuto(p3, "sender_password")
                                THEN With(p3, "sender_password", EmailPassword) ELSE p3
                Sender(p2) == Password(IF IsAuto(p2, "sender_email")
                                       THEN With(p2, "sender_email", EmailSender) ELSE p2)
                Recipients(p1) == Sender(IF Get(p1, "to_addresses", None).tag = "str"
                                         THEN With(p1, "to_addresses", L(<<p1["to_addresses"]>>))
                                         ELSE p1)
            IN  Recipients(SetDefault(params, "tool_name", S("email_send")))
      [] category = "file" ->
            LET Search(p1) == IF p1["tool_name"] = S("file_search")
                              THEN SetDefault(SetDefault(SetDefault(p1,
                                      "directory", S("./")), "filename_pattern", S("*")),
                                      "recursive", B(TRUE))
                              ELSE p1
            IN  Search(SetDefault(params, "tool_name", S("file_search")))
      [] OTHER -> params

\* _extract_tool_parameters once the extraction returned raw
ExtractToolParameters(raw, category) ==
    ParameterDefaults(IF raw.tag = "dict" THEN raw.kv ELSE EmptyMap, category)

\* emails[0] if emails else settings.default_recipient, q.email being the
\* first e-mail address the regex finds in the query (None when it finds none)
QueryRecipient(q) == IF q.email = None THEN DefaultRecipient ELSE q.email

\* _extract_email_parameters_with_meeting
\* subject: "会议邀请：共{N}个会议安排" for the multi-meeting wrapper,
\*          "会议邀请：{title}" for one meeting
ExtractEmailParametersWithMeeting(q, meeting_info) ==
    [tool_name       |-> S("email_send"),
     to_addresses    |-> L(<<QueryRecipient(q)>>),
     subject         |-> IF Truthy(Get(meeting_info.kv, "meetings", None))
                         THEN Fmt(<<"invitation: meetings in total",
                                    I(Len(meeting_info.kv["meetings"].items))>>)
                         ELSE Fmt(<<"invitation:", Get(meeting_info.kv, "title", S("meeting"))>>),
     body            |-> IF Truthy(Get(meeting_info.kv, "meetings", None))
                         THEN Fmt(<<"letter listing", meeting_info.kv["meetings"]>>)
                         ELSE Fmt(<<"letter for", D(meeting_info.kv)>>),
     sender_email    |-> EmailSender,
     sender_password |-> EmailPassword]

\* one entry of the record of calls the agent made
Call(kind, category, detail) == [kind |-> kind, category |-> category, detail |-> detail]

\* subject and body taken from the template result where tool_params has none
TemplateFill(tp, template_result) ==
    LET Body(p1) == IF ~Truthy(Get(p1, "body", None))
                    THEN With(p1, "body", Get(template_result, "body", None)) ELSE p1
    IN  Body(IF ~Truthy(Get(tp, "subject", None))
             THEN With(tp, "subject", Get(template_result, "subject", None)) ELSE tp)

\* the e-mail template pre-fill of execute_tool / _execute_composite_tools:
\* [params |-> tool_params afterwards, calls |-> the template call, if made]
TemplatePrefill(tp, ext) ==
    IF Get(tp, "template", None).tag # "dict"
    THEN [params |-> tp, calls |-> <<>>]
    ELSE LET Filled(r) == [params |-> IF r.out.raised THEN tp
                                      ELSE TemplateFill(tp, r.out.value.kv),
                           calls |-> <<Call("dispatch", "email", "email_template")>>]
         IN  Filled(CollectionExecuteTool("email", "email_template",
                                          tp["template"].kv, <<>>, 0, ext))

\* the failure envelope of execute_tool and _execute_composite_tools
AgentFailure(msg, category) ==
    D([success |-> B(FALSE), error |-> S(msg), tool_category |-> category])

\* a variant: only "none" is turned away
OnlyNone(category) == category = "none"

\* `tool_category == "none" or tool_category not in self.tools_map`
Unsupported(category) == category = "none" \/ category \notin ToolCategories

\* KnowledgeAgent.execute_tool for a category without "|":
\* [env |-> the envelope returned, calls |-> the calls made,
\*  events |-> the list of the agent's calendar tool afterwards]
ExecuteSingle(category, raw, ext, evs, now) ==
    IF Unsupported(category)
    THEN [env |-> AgentFailure("unsupported tool type", S(category)),
          calls |-> <<>>, events |-> evs]
    ELSE
    LET Outcome(pre, r) ==
            [env |-> IF r.out.raised
                     THEN AgentFailure(r.out.error, S(category))
                     ELSE D([success       |-> B(TRUE),
                             result        |-> r.out.value,
                             tool_category |-> S(category),
                             tool_params   |-> D(pre.params)]),
             calls |-> <<Call("extract", category, "generic")>> \o pre.calls
                          \o <<Call("dispatch", category, StrOf(pre.params["tool_name"]))>>,
             events |-> r.events]
        Dispatch(pre) ==
            Outcome(pre, CollectionExecuteTool(category, StrOf(pre.params["tool_name"]),
                            Without(pre.params, "tool_name"), evs, now, ext))
        Extracted(tp0) ==
            IF ~Truthy(Get(tp0, "tool_name", None))
            THEN [env |-> AgentFailure("missing tool_name", S(category)),
                  calls |-> <<Call("extract", category, "generic")>>, events |-> evs]
            ELSE Dispatch(IF category = "email" THEN TemplatePrefill(tp0, ext)
                          ELSE [params |-> tp0, calls |-> <<>>])
    IN  Extracted(ExtractToolParameters(raw, category))

\* dict.get chained through an envelope: env.get("result", {}).get(key)
ResultField(env, key) ==
    LET Field(res) == IF res.tag = "dict" THEN Get(res.kv, key, None) ELSE None
    IN  Field(Get(env.kv, "result", D(EmptyMap)))

\* {k: v for k, v in meeting_params.items() if not k.startswith("_")}
CleanParams(f) == [k \in {x \in DOMAIN f : x \notin {"_multiple_meetings", "_index"}} |-> f[k]]

\* meeting_info after one meeting of the multi-meeting loop
FirstMeetingInfo(meeting_info, env) ==
    IF ~Truthy(meeting_info) /\ Truthy(Get(env.kv, "success", None))
    THEN Or(ResultField(env, "event"), D(EmptyMap))
    ELSE meeting_info

\* the loop `for meeting_params in meetings` of _execute_composite_tools:
\* acc = [results, meeting_info, events, calls, aborted, error]
RECURSIVE CreateMeetings(_, _, _, _)
CreateMeetings(meetings, i, acc, now) ==
    IF i > Len(meetings) \/ acc.aborted THEN acc
    ELSE
    LET Created(r, calls) ==
            IF r.out.raised
            THEN [acc EXCEPT !.aborted = TRUE, !.error = r.out.error, !.calls = calls]
            ELSE CreateMeetings(meetings, i + 1,
                    [acc EXCEPT !.results = Append(@, r.out.value),
                                !.meeting_info = FirstMeetingInfo(@, r.out.value),
                                !.events = r.events,
                                !.calls = calls], now)
        Clean(clean_params) ==
            IF ~Truthy(Get(clean_params, "tool_name", None))
            THEN [acc EXCEPT !.aborted = TRUE, !.error = "missing tool_name"]
            ELSE Created(CollectionExecuteTool("calendar", StrOf(clean_params["tool_name"]),
                            Without(clean_params, "tool_name"), acc.events, now, "ok"),
                         Append(acc.calls,
                                Call("dispatch", "calendar", StrOf(clean_params["tool_name"]))))
    IN  Clean(CleanParams(meetings[i].kv))

\* the events of the successful meeting results, in order
RECURSIVE SuccessfulMeetings(_)
SuccessfulMeetings(meeting_results) ==
    IF meeting_results = <<>> THEN <<>>
    ELSE (IF Truthy(Get(Head(meeting_results).kv, "success", None))
             /\ Truthy(ResultField(Head(meeting_results), "event"))
          THEN <<ResultField(Head(meeting_results), "event")>> ELSE <<>>)
            \o SuccessfulMeetings(Tail(meeting_results))

\* one entry of composite_results
StepResult(category, result, tp) ==
    D([category |-> S(category), result |-> result, tool_params |-> D(tp)])

\* what the multi-meeting branch leaves: m is the outcome of the meeting loop
MultipleMeetings(acc, tp, m) ==
    IF m.aborted
    THEN [acc EXCEPT !.aborted = TRUE, !.error = m.error,
                     !.calls = m.calls, !.events = m.events]
    ELSE
    LET Merged(successful_meetings) ==
            [acc EXCEPT
               !.results = Append(@, StepResult("calendar",
                    D([success |-> B(\A j \in 1..Len(m.results) :
                                        Truthy(Get(m.results[j].kv, "success", B(FALSE)))),
                       result  |-> D([action        |-> S("create_multiple"),
                                      meetings      |-> L(successful_meetings),
                                      total_created |-> I(Len(successful_meetings))])]),
                    tp)),
               !.meeting_info = IF successful_meetings # <<>>
                                THEN D([meetings      |-> L(successful_meetings),
                                        total_created |-> I(Len(successful_meetings))])
                                ELSE m.meeting_info,
               !.calls = m.calls,
               !.events = m.events]
    IN  Merged(SuccessfulMeetings(m.results))

\* meeting_info after the single dispatch of a step returned result
MeetingInfoAfter(meeting_info, category, result) ==
    IF category = "calendar" /\ Truthy(Get(result.kv, "success", None))
          /\ ResultField(result, "action") = S("create")
    THEN ResultField(result, "event")
    ELSE meeting_info

\* one iteration of `for category in tool_categories`:
\* acc = [results, all_success, meeting_info, events, calls, aborted, error]
CompositeStep(acc, category, raw, ext, q, now) ==
    IF acc.aborted THEN acc
    ELSE IF category \notin ToolCategories
    THEN [acc EXCEPT !.all_success = FALSE]
    ELSE
    LET Dispatched(pre, calls, r) ==
            IF r.out.raised
            THEN [acc EXCEPT !.aborted = TRUE, !.error = r.out.error, !.calls = calls]
            ELSE [acc EXCEPT
                    !.results = Append(@, StepResult(category, r.out.value, pre.params)),
                    !.meeting_info = MeetingInfoAfter(@, category, r.out.value),
                    !.calls = calls,
                    !.events = r.events]
        Single(pre, calls) ==
            IF ~Truthy(Get(pre.params, "tool_name", None))
            THEN [acc EXCEPT !.aborted = TRUE, !.error = "missing tool_name",
                             !.calls = calls \o pre.calls]
            ELSE Dispatched(pre,
                    calls \o pre.calls
                       \o <<Call("dispatch", category, StrOf(pre.params["tool_name"]))>>,
                    CollectionExecuteTool(category, StrOf(pre.params["tool_name"]),
                        Without(pre.params, "tool_name"), acc.events, now, ext))
        Extracted(tp0, calls) ==
            IF category = "calendar" /\ "_multiple_meetings" \in DOMAIN tp0
            THEN MultipleMeetings(acc, Without(tp0, "_multiple_meetings"),
                    CreateMeetings(tp0["_multiple_meetings"].items, 1,
                        [results |-> <<>>, meeting_info |-> acc.meeting_info,
                         events |-> acc.events, calls |-> calls,
                         aborted |-> FALSE, error |-> ""], now))
            ELSE Single(IF category = "email" THEN TemplatePrefill(tp0, ext)
                        ELSE [params |-> tp0, calls |-> <<>>], calls)
    IN  IF category = "email" /\ Truthy(acc.meeting_info)
        THEN Extracted(ExtractEmailParametersWithMeeting(q, acc.meeting_info),
                       Append(acc.calls, Call("extract", category, "meeting")))
        ELSE Extracted(ExtractToolParameters(raw, category),
                       Append(acc.calls, Call("extract", category, "generic")))

\* the loop over tool_categories; raws[i] and exts[i] are what the parameter
\* extraction and the outside world give the i-th category
RECURSIVE CompositeLoop(_, _, _, _, _, _, _)
CompositeLoop(segs, i, acc, raws, exts, q, now) ==
    IF i > Len(segs) THEN acc
    ELSE CompositeLoop(segs, i + 1,
            CompositeStep(acc, Strip(segs[i]), raws[i], exts[i], q, now),
            raws, exts, q, now)

\* KnowledgeAgent._execute_composite_tools
ExecuteCompositeTools(segs, raws, exts, q, evs, now) ==
    LET Envelope(acc) ==
            [env |-> IF acc.aborted
                     THEN AgentFailure(acc.error, Piped(segs))
                     ELSE D([success       |-> B(acc.all_success),
                             result        |-> D([composite_results |-> L(acc.results),
                                                  total_tools       |-> I(Len(segs)),
                                                  executed_tools    |-> I(Len(acc.results))]),
                             tool_category |-> Piped(segs),
                             tool_params   |-> D([composite |-> B(TRUE)])]),
             calls |-> acc.calls,
             events |-> acc.events]
    IN  Envelope(CompositeLoop(segs, 1,
                    [results |-> <<>>, all_success |-> TRUE, meeting_info |-> None,
                     events |-> evs, calls |-> <<>>, aborted |-> FALSE, error |-> ""],
                    raws, exts, q, now))

\* KnowledgeAgent.execute_tool
ExecuteTool(segs, raws, exts, q, evs, now) ==
    IF Len(segs) > 1
    THEN ExecuteCompositeTools(segs, raws, exts, q, evs, now)
    ELSE ExecuteSingle(segs[1], raws[1], exts[1], evs, now)

----------------------------------------------------------------------------
(* The chat workflow, src/src/agents/workflow.py, and the chat handler of   *)
(* src/src/api/routes.py                                                    *)

\* the keys _redact masks, and the placeholder it writes
SensitiveKeys == {"password", "sender_password", "api_key", "token", "secret", "authorization"}
Mask == S("***")

\* str.lower() on the dictionary keys the model uses
KeyLower(k) ==
    CASE k = "API_KEY" -> "api_key"
      [] k = "Authorization" -> "authorization"
      [] OTHER -> k

\* a variant: _redact leaving the elements of lists as they are
RECURSIVE RedactDictsOnly(_)
RedactDictsOnly(v) ==
    IF v.tag = "dict"
    THEN D([k \in DOMAIN v.kv |-> IF KeyLower(k) \in SensitiveKeys
                                  THEN Mask ELSE RedactDictsOnly(v.kv[k])])
    ELSE v

\* action_execution_node._redact
RECURSIVE Redact(_)
Redact(v) ==
    CASE v.tag = "dict" ->
            D([k \in DOMAIN v.kv |-> IF KeyLower(k) \in SensitiveKeys
                                     THEN Mask ELSE Redact(v.kv[k])])
      [] v.tag = "list" -> L([i \in DOMAIN v.items |-> Redact(v.items[i])])
      [] OTHER -> v

\* AgentState as chat() builds it; q stands for the query
InitialState(q) ==
    [query           |-> q,
     intent_analysis |-> D(EmptyMap),
     documents       |-> L(<<>>),
     context         |-> S(""),
     response        |-> S(""),
     actions         |-> L(<<>>),
     error           |-> S(""),
     tool_result     |-> None]

\* no chat request in progress
NoQuery == [email |-> None]
NoRun == [ran |-> FALSE, calls |-> <<>>, events |-> <<>>]
NoCall == [called |-> FALSE]

\* the queries: with and without an e-mail address in the text
Queries == {[email |-> None], [email |-> S("bob@corp.com")]}

\* what analyze_query_intent can answer: tool_category is the str the model
\* or the keyword fallback wrote (None: a JSON null)
ToolCategoryValues ==
    {Piped(<<"calendar">>), Piped(<<"email">>), Piped(<<"file">>), Piped(<<"none">>),
     Piped(<<"crm">>), Piped(<<"calendar", "email">>), Piped(<<"crm", " email">>), None}

Intent(requires_tools, tool_category, fallback) ==
    D([requires_tools |-> B(requires_tools),
       tool_category  |-> tool_category,
       category       |-> S("general"),
       fallback       |-> B(fallback)])

Intents ==
    {Intent(FALSE, Piped(<<"none">>), FALSE)}
      \cup {Intent(TRUE, tc, FALSE) : tc \in ToolCategoryValues}

\* what the parameter extraction (language model, or keyword fallback) can
\* return for a category
Meeting(title) ==
    [tool_name  |-> S("calendar_event"),
     action     |-> S("create"),
     title      |-> S(title),
     start_time |-> S("s1"),
     end_time   |-> S("e1")]

RawCalendar ==
    {D(Meeting("t1")),
     D([action |-> S("create"), start_time |-> S("s1"), end_time |-> S("e1")]),
     D([tool_name |-> S("calendar_event"), action |-> S("list")]),
     D([Meeting("t1") EXCEPT !.tool_name = S("calendar_create")]),
     D([Meeting("t1") EXCEPT !.tool_name = S("")]),
     D(Meeting("m1") @@ [_multiple_meetings |-> L(<<D(Meeting("m1")), D(Meeting("m2"))>>)])}

Letter(q) ==
    [to_addresses |-> L(<<QueryRecipient(q)>>),
     subject      |-> S("notice"),
     body         |-> S("text")]

RawEmail(q) ==
    {D(Letter(q) @@ [tool_name       |-> S("email_send"),
                     sender_email    |-> EmailSender,
                     sender_password |-> EmailPassword]),
     D([to_addresses    |-> S("bob@corp.com"),
        subject         |-> S("notice"),
        body            |-> S("text"),
        sender_email    |-> S("__AUTO__"),
        sender_password |-> S("__AUTO__"),
        API_KEY         |-> S("key-123"),
        headers         |-> L(<<D([Authorization |-> S("Bearer abc")])>>)]),
     D([to_addresses |-> L(<<QueryRecipient(q)>>),
        template     |-> D([template_name |-> S("meeting_invitation"),
                            template_vars |-> D([meeting_title |-> S("t1")])])]),
     D(Letter(q) @@ [tool_name |-> S("send_mail")])}

RawFile ==
    {D(EmptyMap),
     D([tool_name |-> S("file_read"), file_path |-> S("notes.txt")]),
     D([tool_name |-> S("file_delete"), file_path |-> S("notes.txt")])}

RawParams(category, q) ==
    CASE category = "calendar" -> RawCalendar
      [] category = "email" -> RawEmail(q)
      [] category = "file" -> RawFile
      [] OTHER -> {D(EmptyMap)}

\* what the mail server / file system does when a tool of the category runs
Exts(category) == IF category \in {"email", "file"} THEN {"ok", "fail"} ELSE {"ok"}

\* a variant: should_continue_after_analysis sending every request to retrieval first
AnalysisRoutingIgnoringTools(st) ==
    IF Truthy(st.error) THEN "error_handling" ELSE "document_retrieval"

\* should_continue_after_analysis
ShouldContinueAfterAnalysis(st) ==
    IF Truthy(st.error) THEN "error_handling"
    ELSE IF Truthy(Get(st.intent_analysis.kv, "requires_tools", B(FALSE)))
    THEN "action_execution"
    ELSE "document_retrieval"

\* a variant: after_context_assembly integrating whenever an action was recorded
AssemblyRoutingOnActions(st) ==
    IF Truthy(st.error) THEN "error_handling"
    ELSE IF Truthy(st.actions) THEN "context_integration"
    ELSE "response_generation"

\* after_context_assembly
AfterContextAssembly(st) ==
    IF Truthy(st.error) THEN "error_handling"
    ELSE IF st.tool_result # None THEN "context_integration"
    ELSE "response_generation"

\* a variant: should_continue_after_response sending every request with
\* tools to action_execution, whatever actions it recorded
ResponseRoutingOnTools(st) ==
    IF Truthy(st.error) THEN "error_handling"
    ELSE IF Truthy(Get(st.intent_analysis.kv, "requires_tools", B(FALSE)))
    THEN "action_execution"
    ELSE "END"

\* should_continue_after_response
ShouldContinueAfterResponse(st) ==
    IF Truthy(st.error) THEN "error_handling"
    ELSE IF Truthy(Get(st.intent_analysis.kv, "requires_tools", B(FALSE)))
            /\ ~Truthy(st.actions)
    THEN "action_execution"
    ELSE "END"

\* the except branch of action_execution_node
ActionError(st, msg) ==
    [st EXCEPT !.error = S(msg),
               !.actions = L(<<D([type   |-> S("error"),
                                  status |-> S("failed"),
                                  error  |-> S(msg)])>>)]

\* the body of action_execution_node once agent.execute_tool returned res;
\* tool_result["error"] of an envelope without that key raises KeyError
RecordAction(st, res) ==
    LET tool_result == res.env
        type == Get(st.intent_analysis.kv, "tool_category", S("unknown"))
    IN  IF Truthy(tool_result.kv["success"])
        THEN [st EXCEPT
                !.actions = L(<<D([type        |-> type,
                                   status      |-> S("completed"),
                                   result      |-> tool_result.kv["result"],
                                   tool_params |-> Redact(Get(tool_result.kv, "tool_params",
                                                              D(EmptyMap)))])>>),
                !.tool_result = tool_result]
        ELSE IF "error" \notin DOMAIN tool_result.kv
        THEN ActionError(st, "KeyError: error")
        ELSE [st EXCEPT
                !.actions = L(<<D([type   |-> type,
                                   status |-> S("failed"),
                                   error  |-> tool_result.kv["error"]])>>),
                !.tool_result = None]

\* the sequences giving every listed category one extraction result
RawSeqs(segs, q) ==
    {f \in [1..Len(segs) -> UNION {RawParams(Strip(segs[i]), q) : i \in 1..Len(segs)}] :
        \A i \in 1..Len(segs) : f[i] \in RawParams(Strip(segs[i]), q)}

\* the sequences giving every listed category one outside-world outcome
ExtSeqs(segs) ==
    {f \in [1..Len(segs) -> {"ok", "fail"}] :
        \A i \in 1..Len(segs) : f[i] \in Exts(Strip(segs[i]))}

\* ids of the events of a calendar list
IdsOf(evs) == {evs[i].id : i \in DOMAIN evs}

\* one step of the compiled graph: the node ran, routing chose next
Ran(next) ==
    /\ path' = Append(path, node)
    /\ node' = next

\* chat(): a request arrives and the workflow is invoked on the initial state
StartChat ==
    /\ node \in {"idle", "END"}
    /\ \E q \in Queries : state' = InitialState(q)
    /\ node' = "query_analysis"
    /\ path' = <<>>
    /\ run' = NoRun
    /\ toolCall' = NoCall
    /\ UNCHANGED <<events, clock, calResult, restVars>>

\* query_analysis_node: the analysis answers, or the node falls back
QueryAnalysis ==
    /\ node = "query_analysis"
    /\ \E intent \in Intents \cup {Intent(FALSE, Piped(<<"none">>), TRUE)} :
          /\ state' = [state EXCEPT !.intent_analysis = intent]
          /\ Ran(ShouldContinueAfterAnalysis(state'))
    /\ UNCHANGED <<events, clock, calResult, run, toolCall, restVars>>

\* action_execution_node: a new KnowledgeAgent, hence a new CalendarTools with
\* an empty event list, executes the tool
ActionExecution ==
    /\ node = "action_execution"
    /\ LET intent == state.intent_analysis.kv
           tool_category == Get(intent, "tool_category", Piped(<<"none">>))
       IN  IF ~Truthy(Get(intent, "requires_tools", B(FALSE)))
           THEN /\ state' = [state EXCEPT !.actions = L(<<>>)]
                /\ UNCHANGED run
           ELSE IF tool_category = None
           THEN /\ state' = ActionError(state, "TypeError: argument of type NoneType is not iterable")
                /\ run' = [NoRun EXCEPT !.ran = TRUE]
           ELSE \E raws \in RawSeqs(tool_category.segs, state.query),
                   exts \in ExtSeqs(tool_category.segs) :
                   LET Executed(res) ==
                           /\ state' = RecordAction(state, res)
                           /\ run' = [ran |-> TRUE, calls |-> res.calls,
                                      events |-> res.events]
                   IN  Executed(ExecuteTool(tool_category.segs, raws, exts,
                                            state.query, <<>>, clock))
    /\ Ran("document_retrieval")
    /\ UNCHANGED <<events, clock, calResult, toolCall, restVars>>

\* document_retrieval_node: the retriever answers or raises
DocumentRetrieval ==
    /\ node = "document_retrieval"
    /\ \/ state' = [state EXCEPT !.documents = L(<<S("doc")>>)]
       \/ state' = [state EXCEPT !.documents = L(<<>>), !.error = S("retrieval failed")]
    /\ Ran("context_assembly")
    /\ UNCHANGED <<events, clock, calResult, run, toolCall, restVars>>

\* [a for a in actions if a.get("status") == "failed" and a.get("error")]
FailedActions(actions) ==
    SelectSeq(actions.items,
              LAMBDA a : Get(a.kv, "status", None) = S("failed")
                            /\ Truthy(Get(a.kv, "error", None)))

\* context_assembly_node
ContextAssembly ==
    /\ node = "context_assembly"
    /\ state' = [state EXCEPT !.context =
                    Fmt(<<state.documents, L(FailedActions(state.actions))>>)]
    /\ Ran(AfterContextAssembly(state'))
    /\ UNCHANGED <<events, clock, calResult, run, toolCall, restVars>>

\* response_generation_node
ResponseGeneration ==
    /\ node = "response_generation"
    /\ \/ state' = [state EXCEPT !.response = S("generated")]
       \/ state' = [state EXCEPT !.response = S("sorry"),
                                 !.error = S("generation failed")]
    /\ Ran(ShouldContinueAfterResponse(state'))
    /\ UNCHANGED <<events, clock, calResult, run, toolCall, restVars>>

\* context_integration_node
ContextIntegration ==
    /\ node = "context_integration"
    /\ \/ state' = IF state.tool_result # None
                   THEN [state EXCEPT !.response = S("integrated")]
                   ELSE state
       \/ state' = [state EXCEPT !.error = S("integration failed")]
    /\ Ran("END")
    /\ UNCHANGED <<events, clock, calResult, run, toolCall, restVars>>

\* error_handling_node
ErrorHandling ==
    /\ node = "error_handling"
    /\ state' = [state EXCEPT !.response = Fmt(<<"error:", state.error>>)]
    /\ Ran("END")
    /\ UNCHANGED <<events, clock, calResult, run, toolCall, restVars>>

----------------------------------------------------------------------------
(* POST /tools/execute, src/src/api/routes.py *)

\* str.lower() on the category names the model uses
CategoryLower(c) == IF c = "Calendar" THEN "calendar" ELSE c

ToolRequest(tool_category, tool_name, parameters) ==
    [tool_category |-> tool_category, tool_name |-> tool_name, parameters |-> parameters]

\* the requests a client sends
ToolRequests ==
    {ToolRequest("calendar", "calendar_event", Without(Meeting("t1"), "tool_name")),
     ToolRequest("Calendar", "calendar_event", [action |-> S("list")]),
     ToolRequest("calendar", "calendar_create", Without(Meeting("t1"), "tool_name")),
     ToolRequest("email", "email_send",
                 Letter(NoQuery) @@ [sender_email    |-> EmailSender,
                                     sender_password |-> EmailPassword]),
     ToolRequest("file", "file_read", [file_path |-> S("notes.txt")]),
     ToolRequest("file", "file_read", EmptyMap),
     ToolRequest("crm", "lookup", EmptyMap)}
      \cup {ToolRequest("calendar", "calendar_event",
                        [action |-> S("delete"), event_id |-> id]) :
                id \in IdsOf(events) \cup {IdV(0, 0)}}

\* execute_tool of routes.py: [status, out, events]
ExecuteToolEndpoint(request, evs, now, ext) ==
    IF CategoryLower(request.tool_category) \in ToolCategories
    THEN LET Answer(r) == [status |-> IF r.out.raised THEN 500 ELSE 200,
                           dispatched |-> TRUE, out |-> r.out, events |-> r.events]
         IN  Answer(CollectionExecuteTool(CategoryLower(request.tool_category),
                        request.tool_name, request.parameters, evs, now, ext))
    ELSE [status |-> 500, dispatched |-> FALSE,
          out |-> Raised("HTTPException 400"), events |-> evs]

\* one request to /tools/execute, served by the process-wide tool collections
ApiExecuteTool ==
    /\ node \in {"idle", "END"}
    /\ \E request \in ToolRequests :
       \E ext \in Exts(CategoryLower(request.tool_category)) :
          LET Answered(r) ==
                  /\ Len(r.events) <= MaxEvents
                  /\ events' = r.events
                  /\ toolCall' = [called |-> TRUE, request |-> request,
                                  status |-> r.status, dispatched |-> r.dispatched,
                                  out |-> r.out]
          IN  Answered(ExecuteToolEndpoint(request, events, clock, ext))
    /\ node' = "idle"
    /\ state' = InitialState(NoQuery)
    /\ path' = <<>>
    /\ run' = NoRun
    /\ UNCHANGED <<clock, calResult, restVars>>

----------------------------------------------------------------------------
(* POST /documents/upload and the background indexing task,                 *)
(* src/src/api/routes.py                                                    *)

\* largest number of uploads the model accepts
MaxUploads == 2
\* largest number of chunks the document processor makes of one file
MaxChunks == 1

\* settings.max_file_size
MaxFileSize == 10 * 1024 * 1024

\* allowed_extensions
AllowedExtensions == {".pdf", ".docx", ".txt"}

\* the file names a client uploads
FileNames == {"a.pdf", "a.PDF", "a.docx", "a.txt", "a.exe", "a"}

\* Path(file.filename).suffix.lower()
SuffixLower(filename) ==
    CASE filename \in {"a.pdf", "a.PDF"} -> ".pdf"
      [] filename = "a.docx" -> ".docx"
      [] filename = "a.txt" -> ".txt"
      [] filename = "a.exe" -> ".exe"
      [] OTHER -> ""

\* the uploads a client sends
UploadRequests ==
    {[filename |-> f, size |-> n] :
        f \in FileNames, n \in {1, MaxFileSize, MaxFileSize + 1}}

\* the two checks of upload_document: the HTTPException they raise, if any
UploadChecks(request) ==
    IF SuffixLower(request.filename) \notin AllowedExtensions
    THEN [raised |-> TRUE, status_code |-> 400, detail |-> "unsupported file type"]
    ELSE IF request.size > MaxFileSize
    THEN [raised |-> TRUE, status_code |-> 400, detail |-> "file too large"]
    ELSE [raised |-> FALSE]

\* `except Exception as e: raise HTTPException(status_code=500, ...)`, which
\* also catches the HTTPException the checks raise
UploadFailed(detail) == [status_code |-> 500, detail |-> detail, upload_id |-> 0]

\* DocumentUploadResponse(..., status="uploaded")
Uploaded(upload_id) == [status_code |-> 200, detail |-> "uploaded", upload_id |-> upload_id]

\* nothing uploaded yet; handler.pc is the statement the handler is at
NoUpload ==
    [pc       |-> "idle",
     request  |-> [filename |-> "", size |-> 0],
     id       |-> 0,
     intake   |-> {},
     tasks    |-> <<>>,
     response |-> [status_code |-> 0, detail |-> "", upload_id |-> 0],
     count    |-> 0]

\* a variant: the chunks are added whatever their number
AddRegardless(chunks) == "add"

\* where process_uploaded_document goes after processor.process_document
\* returned chunks: `if document_chunks:`
AfterProcessing(chunks) == IF chunks > 0 THEN "add" ELSE "done"

\* a request arrives at upload_document
UploadArrive ==
    /\ upload.pc = "idle"
    /\ upload.count < MaxUploads
    /\ \E request \in UploadRequests :
          upload' = [upload EXCEPT !.pc = "check", !.request = request,
                                   !.count = @ + 1, !.id = upload.count + 1]
    /\ UNCHANGED <<coreVars, models, cache, call>>

\* the extension and size checks
UploadCheck ==
    /\ upload.pc = "check"
    /\ upload' = IF UploadChecks(upload.request).raised
                 THEN [upload EXCEPT !.pc = "idle",
                          !.response = UploadFailed(UploadChecks(upload.request).detail)]
                 ELSE [upload EXCEPT !.pc = "save"]
    /\ UNCHANGED <<coreVars, models, cache, call>>

\* mkdir, await file.read() and the write of the file: done, or an OSError
UploadSave ==
    /\ upload.pc = "save"
    /\ \/ upload' = [upload EXCEPT !.pc = "schedule", !.intake = @ \cup {upload.id}]
       \/ upload' = [upload EXCEPT !.pc = "idle", !.response = UploadFailed("OSError")]
    /\ UNCHANGED <<coreVars, models, cache, call>>

\* background_tasks.add_task(process_uploaded_document, str(file_path))
UploadSchedule ==
    /\ upload.pc = "schedule"
    /\ upload' = [upload EXCEPT
                    !.pc = "respond",
                    !.tasks = Append(@, [id |-> upload.id, pc |-> "pending",
                                         adds |-> 0, chunks |-> 0, swallowed |-> FALSE])]
    /\ UNCHANGED <<coreVars, models, cache, call>>

\* return response
UploadRespond ==
    /\ upload.pc = "respond"
    /\ upload' = [upload EXCEPT !.pc = "idle", !.response = Uploaded(upload.id)]
    /\ UNCHANGED <<coreVars, models, cache, call>>

\* the response of the task's upload has been sent: background tasks run
\* after it
Responded(i) == upload.pc = "idle" \/ upload.tasks[i].id # upload.id

\* process_uploaded_document up to the existence check: initialize_components
\* raises (swallowed), or the file is looked up
IndexStart ==
    /\ \E i \in DOMAIN upload.tasks :
          /\ upload.tasks[i].pc = "pending"
          /\ Responded(i)
          /\ \/ upload' = [upload EXCEPT !.tasks[i].pc = "done",
                                         !.tasks[i].swallowed = TRUE]
             \/ upload' = [upload EXCEPT !.tasks[i].pc =
                              IF upload.tasks[i].id \in upload.intake
                              THEN "process" ELSE "done"]
    /\ UNCHANGED <<coreVars, models, cache, call>>

\* DocumentProcessor().process_document(file_path): chunks, or an exception
\* (swallowed)
IndexProcess ==
    /\ \E i \in DOMAIN upload.tasks :
          /\ upload.tasks[i].pc = "process"
          /\ \/ upload' = [upload EXCEPT !.tasks[i].pc = "done",
                                         !.tasks[i].swallowed = TRUE]
             \/ \E chunks \in 0..MaxChunks :
                   upload' = [upload EXCEPT !.tasks[i].pc = AfterProcessing(chunks),
                                            !.tasks[i].chunks = chunks]
    /\ UNCHANGED <<coreVars, models, cache, call>>

\* retriever.vector_store.add_documents(document_chunks): True, False, or an
\* exception (swallowed)
IndexAdd ==
    /\ \E i \in DOMAIN upload.tasks :
          /\ upload.tasks[i].pc = "add"
          /\ \E swallowed \in BOOLEAN :
                upload' = [upload EXCEPT !.tasks[i].pc = "done",
                                         !.tasks[i].adds = @ + 1,
                                         !.tasks[i].swallowed = swallowed]
    /\ UNCHANGED <<coreVars, models, cache, call>>

UploadNext ==
    \/ UploadArrive
    \/ UploadCheck
    \/ UploadSave
    \/ UploadSchedule
    \/ UploadRespond
    \/ IndexStart
    \/ IndexProcess
    \/ IndexAdd

----------------------------------------------------------------------------
(* ModelManager, src/src/utils/model_manager.py *)

\* number of threads that use the ModelManager besides the importing thread
MaxThreads == 2
\* number of calls each of them makes
MaxCalls == 2

\* the thread that imports the module, and the threads that use it afterwards
Importer == 0
Workers == 1..MaxThreads
Threads == {Importer} \cup Workers

\* ModelManager(), get_chat_model(), get_embedding_model()
ModelOps == {"construct", "chat", "embedding"}

\* the class before the module is imported: _instance is None (0), both locks
\* free (-1), no thread has called anything
NoModels ==
    [instance    |-> 0,
     created     |-> 0,
     initialized |-> "unset",
     client      |-> [k \in {"chat", "embedding"} |-> 0],
     built       |-> [k \in {"chat", "embedding"} |-> 0],
     lock        |-> -1,
     model_lock  |-> -1,
     returned    |-> [k \in ModelOps |-> {}],
     threads     |-> [t \in Threads |->
                        [pc |-> "idle", op |-> "construct",
                         left |-> IF t = Importer THEN 1 ELSE MaxCalls]]]

\* `model_manager = ModelManager()` at the end of the module has run: the
\* import is over, and only then can another thread name the class
Imported ==
    /\ models.threads[Importer].pc = "idle"
    /\ models.threads[Importer].left = 0

\* a variant: the client is built without looking again once the lock is held
BuildUnchecked(client) == TRUE

\* the second `if self._chat_model is None:` / `if self._embedding_model is
\* None:`, under _model_lock
StillMissing(client) == client = 0

\* thread t returns handle h from its call
ModelReturn(t, h) ==
    [models EXCEPT !.threads[t].pc = "idle",
                   !.returned[models.threads[t].op] = @ \cup {h}]

\* thread t begins a call: the importer constructs the module-level
\* instance, the others call what they like once the import is over
ModelBegin(t) ==
    /\ models.threads[t].pc = "idle"
    /\ models.threads[t].left > 0
    /\ t # Importer => Imported
    /\ \E op \in IF t = Importer THEN {"construct"} ELSE ModelOps :
          models' = [models EXCEPT
                        !.threads[t].op = op,
                        !.threads[t].left = @ - 1,
                        !.threads[t].pc = IF op = "construct" THEN "new_check"
                                          ELSE "get_check"]
    /\ UNCHANGED <<coreVars, upload, cache, call>>

\* __new__: `if cls._instance is None:`
NewCheck(t) ==
    /\ models.threads[t].pc = "new_check"
    /\ models' = [models EXCEPT !.threads[t].pc =
                     IF models.instance = 0 THEN "new_lock" ELSE "init_check"]
    /\ UNCHANGED <<coreVars, upload, cache, call>>

\* __new__: `with cls._lock:`
NewLock(t) ==
    /\ models.threads[t].pc = "new_lock"
    /\ models.lock = -1
    /\ models' = [models EXCEPT !.threads[t].pc = "new_inner", !.lock = t]
    /\ UNCHANGED <<coreVars, upload, cache, call>>

\* __new__: the second `if cls._instance is None:` and `cls._instance =
\* super().__new__(cls)`
NewInner(t) ==
    /\ models.threads[t].pc = "new_inner"
    /\ models' = IF models.instance = 0
                 THEN [models EXCEPT !.threads[t].pc = "new_flag",
                                     !.created = @ + 1,
                                     !.instance = models.created + 1,
                                     !.initialized = "unset"]
                 ELSE [models EXCEPT !.threads[t].pc = "init_check", !.lock = -1]
    /\ UNCHANGED <<coreVars, upload, cache, call>>

\* __new__: `cls._instance._initialized = False`, and the lock is released
NewFlag(t) ==
    /\ models.threads[t].pc = "new_flag"
    /\ models' = [models EXCEPT !.threads[t].pc = "init_check",
                                !.initialized = "False", !.lock = -1]
    /\ UNCHANGED <<coreVars, upload, cache, call>>

\* __init__: `if self._initialized: return`; the attribute does not exist
\* before __new__ has set it
InitCheck(t) ==
    /\ models.threads[t].pc = "init_check"
    /\ models' = CASE models.initialized = "True" -> ModelReturn(t, models.instance)
                   [] models.initialized = "False" ->
                         [models EXCEPT !.threads[t].pc = "init_body"]
                   [] OTHER -> ModelReturn(t, -1)
    /\ UNCHANGED <<coreVars, upload, cache, call>>

\* __init__: both clients set to None and a new _model_lock made
InitBody(t) ==
    /\ models.threads[t].pc = "init_body"
    /\ models' = [models EXCEPT !.threads[t].pc = "init_done",
                                !.client = [k \in {"chat", "embedding"} |-> 0],
                                !.model_lock = -1]
    /\ UNCHANGED <<coreVars, upload, cache, call>>

\* __init__: `self._initialized = True`; ModelManager() returns the instance
InitDone(t) ==
    /\ models.threads[t].pc = "init_done"
    /\ models' = [ModelReturn(t, models.instance) EXCEPT !.initialized = "True"]
    /\ UNCHANGED <<coreVars, upload, cache, call>>

\* get_chat_model / get_embedding_model: the first `is None` test; the
\* attribute is read again by the return statement
GetCheck(t) ==
    /\ models.threads[t].pc = "get_check"
    /\ models' = IF models.client[models.threads[t].op] = 0
                 THEN [models EXCEPT !.threads[t].pc = "get_lock"]
                 ELSE [models EXCEPT !.threads[t].pc = "get_return"]
    /\ UNCHANGED <<coreVars, upload, cache, call>>

\* `with self._model_lock:`
GetLock(t) ==
    /\ models.threads[t].pc = "get_lock"
    /\ models.model_lock = -1
    /\ models' = [models EXCEPT !.threads[t].pc = "get_inner", !.model_lock = t]
    /\ UNCHANGED <<coreVars, upload, cache, call>>

\* the second test and the construction of the client, then the lock is
\* released
GetInner(t) ==
    /\ models.threads[t].pc = "get_inner"
    /\ models' = IF StillMissing(models.client[models.threads[t].op])
                 THEN [models EXCEPT
                          !.threads[t].pc = "get_return",
                          !.model_lock = -1,
                          !.built[models.threads[t].op] = @ + 1,
                          !.client[models.threads[t].op] =
                              models.built[models.threads[t].op] + 1]
                 ELSE [models EXCEPT !.threads[t].pc = "get_return",
                                     !.model_lock = -1]
    /\ UNCHANGED <<coreVars, upload, cache, call>>

\* `return self._chat_model` / `return self._embedding_model`
GetReturn(t) ==
    /\ models.threads[t].pc = "get_return"
    /\ models' = ModelReturn(t, models.client[models.threads[t].op])
    /\ UNCHANGED <<coreVars, upload, cache, call>>

ModelNext ==
    \E t \in Threads :
        \/ ModelBegin(t)
        \/ NewCheck(t)
        \/ NewLock(t)
        \/ NewInner(t)
        \/ NewFlag(t)
        \/ InitCheck(t)
        \/ InitBody(t)
        \/ InitDone(t)
        \/ GetCheck(t)
        \/ GetLock(t)
        \/ GetInner(t)
        \/ GetReturn(t)

\* a worker begins clear_models()
ClearBegin(t) ==
    /\ models.threads[t].pc = "idle"
    /\ models.threads[t].left > 0
    /\ Imported
    /\ models' = [models EXCEPT !.threads[t].op = "clear",
                                !.threads[t].left = @ - 1,
                                !.threads[t].pc = "clear_lock"]
    /\ UNCHANGED <<coreVars, upload, cache, call>>

\* clear_models: `with self._model_lock:`
ClearLock(t) ==
    /\ models.threads[t].pc = "clear_lock"
    /\ models.model_lock = -1
    /\ models' = [models EXCEPT !.threads[t].pc = "clear_chat", !.model_lock = t]
    /\ UNCHANGED <<coreVars, upload, cache, call>>

\* clear_models: `self._chat_model = None`
ClearChat(t) ==
    /\ models.threads[t].pc = "clear_chat"
    /\ models' = [models EXCEPT !.threads[t].pc = "clear_embedding",
                                !.client["chat"] = 0]
    /\ UNCHANGED <<coreVars, upload, cache, call>>

\* clear_models: `self._embedding_model = None`
ClearEmbedding(t) ==
    /\ models.threads[t].pc = "clear_embedding"
    /\ models' = [models EXCEPT !.threads[t].pc = "clear_unlock",
                                !.client["embedding"] = 0]
    /\ UNCHANGED <<coreVars, upload, cache, call>>

\* clear_models: the lock is released and the call returns
ClearUnlock(t) ==
    /\ models.threads[t].pc = "clear_unlock"
    /\ models' = [models EXCEPT !.threads[t].pc = "idle", !.model_lock = -1]
    /\ UNCHANGED <<coreVars, upload, cache, call>>

ClearNext ==
    \E t \in Workers :
        \/ ClearBegin(t)
        \/ ClearLock(t)
        \/ ClearChat(t)
        \/ ClearEmbedding(t)
        \/ ClearUnlock(t)

----------------------------------------------------------------------------
(* SimpleCache, src/src/utils/cache.py *)

\* max_size of the cache the model follows
MaxSize == 2
\* its ttl, in ticks of the clock
Ttl == 1
\* largest reading of time.time()
MaxTime == 3

\* the key objects callers pass: strings and an int
KeyObjects == {S("a"), S("b"), S("c"), S("1"), I(1)}

\* the values callers store
CacheValues == {"v1", "v2"}

\* str(data) for the key objects of the model
DataStr(data) == IF data.tag = "int" THEN "1" ELSE data.s

\* _generate_key: the MD5 hex digest of the string form
GenerateKey(data) == [md5 |-> DataStr(data)]

CacheKeys == {GenerateKey(k) : k \in KeyObjects}

\* position of cache_key in the dict, 0 if it is not in it
IndexOf(entries, cache_key) ==
    IF \E i \in DOMAIN entries : entries[i].key = cache_key
    THEN CHOOSE i \in DOMAIN entries : entries[i].key = cache_key
    ELSE 0

\* min(self.cache.keys(), key=lambda k: self.cache[k]['timestamp']): the first
\* key, in insertion order, with the smallest timestamp
Oldest(entries) ==
    CHOOSE i \in DOMAIN entries :
        /\ \A j \in DOMAIN entries : entries[i].timestamp <= entries[j].timestamp
        /\ \A j \in 1..(i - 1) : entries[j].timestamp > entries[i].timestamp

\* self.cache[cache_key] = {'value': value, 'timestamp': time.time()}: a key
\* already in the dict keeps its place, a new one goes last
Put(entries, cache_key, value, now) ==
    IF IndexOf(entries, cache_key) = 0
    THEN Append(entries, [key |-> cache_key, value |-> value, timestamp |-> now])
    ELSE [entries EXCEPT ![IndexOf(entries, cache_key)] =
              [key |-> cache_key, value |-> value, timestamp |-> now]]

\* a variant: no entry ever counts as expired
NeverExpired(now, timestamp) == FALSE

\* `time.time() - entry['timestamp'] > self.ttl`
Expired(now, timestamp) == now - timestamp > Ttl

\* a variant: the cache never counts as full
NeverFull(size) == FALSE

\* `len(self.cache) >= self.max_size`
AtCapacity(size) == size >= MaxSize

\* the entries that cleanup_expired keeps, in their order
Unexpired(entries, now) ==
    SelectSeq(entries, LAMBDA e : ~Expired(now, e.timestamp))

\* a new cache; latest is the value last set under each key, kept to state
\* what get is expected to return
NoCache ==
    [entries |-> <<>>,
     now     |-> 0,
     latest  |-> [k \in CacheKeys |-> "None"],
     last    |-> [op |-> "none", key |-> [md5 |-> ""], value |-> "None",
                  path |-> "", removed |-> 0]]

\* SimpleCache.get(key)
CacheGet ==
    /\ \E k \in KeyObjects :
          LET Looked(i) ==
                  IF i = 0
                  THEN [cache EXCEPT !.last = [op |-> "get", key |-> GenerateKey(k),
                            value |-> "None", path |-> "absent", removed |-> 0]]
                  ELSE IF Expired(cache.now, cache.entries[i].timestamp)
                  THEN [cache EXCEPT !.entries = RemoveAt(cache.entries, i),
                            !.last = [op |-> "get", key |-> GenerateKey(k),
                               value |-> "None", path |-> "expired", removed |-> 1]]
                  ELSE [cache EXCEPT !.last = [op |-> "get", key |-> GenerateKey(k),
                            value |-> cache.entries[i].value, path |-> "found",
                            removed |-> 0]]
          IN  cache' = Looked(IndexOf(cache.entries, GenerateKey(k)))
    /\ UNCHANGED <<coreVars, upload, models, call>>

\* SimpleCache.set(key, value)
CacheSet ==
    /\ \E k \in KeyObjects, v \in CacheValues :
          LET Stored(kept, how) ==
                  [cache EXCEPT
                      !.entries = Put(kept, GenerateKey(k), v, cache.now),
                      !.latest[GenerateKey(k)] = v,
                      !.last = [op |-> "set", key |-> GenerateKey(k), value |-> v,
                                path |-> how,
                                removed |-> Len(cache.entries) - Len(kept)]]
          IN  cache' = IF AtCapacity(Len(cache.entries))
                       THEN Stored(RemoveAt(cache.entries, Oldest(cache.entries)),
                                   "evicted")
                       ELSE Stored(cache.entries, "stored")
    /\ UNCHANGED <<coreVars, upload, models, call>>

\* SimpleCache.clear()
CacheClear ==
    /\ cache' = [cache EXCEPT !.entries = <<>>,
                    !.last = [op |-> "clear", key |-> [md5 |-> ""], value |-> "None",
                              path |-> "", removed |-> Len(cache.entries)]]
    /\ UNCHANGED <<coreVars, upload, models, call>>

\* SimpleCache.cleanup_expired()
CacheCleanup ==
    /\ LET Cleaned(kept) ==
              [cache EXCEPT !.entries = kept,
                  !.last = [op |-> "cleanup_expired", key |-> [md5 |-> ""],
                            value |-> "None", path |-> "",
                            removed |-> Len(cache.entries) - Len(kept)]]
       IN  cache' = Cleaned(Unexpired(cache.entries, cache.now))
    /\ UNCHANGED <<coreVars, upload, models, call>>

\* time.time() moves on between two calls
CacheTick ==
    /\ cache.now < MaxTime
    /\ cache' = [cache EXCEPT !.now = @ + 1,
                    !.last = [op |-> "none", key |-> [md5 |-> ""], value |-> "None",
                              path |-> "", removed |-> 0]]
    /\ UNCHANGED <<coreVars, upload, models, call>>

CacheNext ==
    \/ CacheGet
    \/ CacheSet
    \/ CacheClear
    \/ CacheCleanup
    \/ CacheTick


\* nothing has been asked of the service yet
CoreInit ==
    /\ events = <<>>
    /\ clock = 0
    /\ calResult = [action |-> "none", kw |-> EmptyMap, out |-> Returned(None)]
    /\ node = "idle"
    /\ state = InitialState(NoQuery)
    /\ path = <<>>
    /\ run = NoRun
    /\ toolCall = NoCall
    /\ upload = NoUpload
    /\ models = NoModels
    /\ cache = NoCache

----------------------------------------------------------------------------
(* KnowledgeAgent._fallback_intent_analysis,                                *)
(* src/src/agents/knowledge_agent.py                                        *)

\* largest number of phrases in a query
MaxPhrases == 2

\* file_keywords: sousuo wenjian, chazhao wenjian, duqu wenjian, chuangjian
\* wenjian, wenjian, mulu
FileKeywords ==
    {<<"u641c", "u7d22", "u6587", "u4ef6">>,
     <<"u67e5", "u627e", "u6587", "u4ef6">>,
     <<"u8bfb", "u53d6", "u6587", "u4ef6">>,
     <<"u521b", "u5efa", "u6587", "u4ef6">>,
     <<"u6587", "u4ef6">>,
     <<"u76ee", "u5f55">>}

\* email_keywords: fasong youjian, youjian, fa youjian, fasong, email, tongzhi
EmailKeywords ==
    {<<"u53d1", "u9001", "u90ae", "u4ef6">>,
     <<"u90ae", "u4ef6">>,
     <<"u53d1", "u90ae", "u4ef6">>,
     <<"u53d1", "u9001">>,
     <<"e", "m", "a", "i", "l">>,
     <<"u901a", "u77e5">>}

\* calendar_keywords: anpai huiyi, chuangjian huiyi, huiyi, richeng, yuyue,
\* yuehui, shijian anpai
CalendarKeywords ==
    {<<"u5b89", "u6392", "u4f1a", "u8bae">>,
     <<"u521b", "u5efa", "u4f1a", "u8bae">>,
     <<"u4f1a", "u8bae">>,
     <<"u65e5", "u7a0b">>,
     <<"u9884", "u7ea6">>,
     <<"u7ea6", "u4f1a">>,
     <<"u65f6", "u95f4", "u5b89", "u6392">>}

\* the pieces queries are made of: wenjian, mulu, you, jian, Email, fasong,
\* huiyi, richeng, nihao, file
Phrases ==
    {<<"u6587", "u4ef6">>,
     <<"u76ee", "u5f55">>,
     <<"u90ae">>,
     <<"u4ef6">>,
     <<"E", "m", "a", "i", "l">>,
     <<"u53d1", "u9001">>,
     <<"u4f1a", "u8bae">>,
     <<"u65e5", "u7a0b">>,
     <<"u4f60", "u597d">>,
     <<"f", "i", "l", "e">>}

\* the queries: up to MaxPhrases phrases one after the other
QueryTexts ==
    {Concat(ps) : ps \in UNION {[1..n -> Phrases] : n \in 0..MaxPhrases}}

\* any(keyword in query_lower for keyword in keywords)
AnyKeyword(keywords, query_lower) == \E k \in keywords : Contains(query_lower, k)

\* tool_categories after the three tests, in the order file, email, calendar
MatchedCategories(query_lower) ==
    (IF AnyKeyword(FileKeywords, query_lower) THEN <<"file">> ELSE <<>>)
      \o (IF AnyKeyword(EmailKeywords, query_lower) THEN <<"email">> ELSE <<>>)
      \o (IF AnyKeyword(CalendarKeywords, query_lower) THEN <<"calendar">> ELSE <<>>)

\* a float with one decimal
Tenths(n) == [tag |-> "float", tenths |-> n]

\* a variant: the first matched category alone
FirstCategory(categories) ==
    IF Len(categories) >= 1 THEN Piped(<<categories[1]>>) ELSE Piped(<<"none">>)

\* the final tool_category: "|".join(tool_categories), the single category, or
\* "none"
JoinCategories(categories) ==
    IF Len(categories) > 1 THEN Piped(categories)
    ELSE IF Len(categories) = 1 THEN Piped(<<categories[1]>>)
    ELSE Piped(<<"none">>)

\* _fallback_intent_analysis(query)
FallbackIntentAnalysis(query) ==
    LET Answer(categories) ==
            D([intent_type    |-> S(IF categories # <<>> THEN "task" ELSE "question"),
               confidence     |-> IF categories # <<>> THEN Tenths(7) ELSE Tenths(8),
               entities       |-> L(<<>>),
               requires_tools |-> B(categories # <<>>),
               tool_category  |-> JoinCategories(categories),
               category       |-> S("general"),
               action_needed  |-> IF categories # <<>> THEN [tag |-> "text", chars |-> query]
                                  ELSE S(""),
               original_query |-> [tag |-> "text", chars |-> query]])
    IN  Answer(MatchedCategories(Lower(query)))

\* no call of a function of the agent is under way
NoPureCall == [fn |-> "none"]

\* a query waits for the keyword rules
IntentInit ==
    /\ CoreInit
    /\ call \in {[fn |-> "_fallback_intent_analysis", done |-> FALSE,
                  query |-> q, out |-> None] : q \in QueryTexts}

\* the keyword rules answer
FallbackAnalysis ==
    /\ call.fn = "_fallback_intent_analysis"
    /\ ~call.done
    /\ call' = [call EXCEPT !.done = TRUE, !.out = FallbackIntentAnalysis(call.query)]
    /\ UNCHANGED <<coreVars, upload, models, cache>>

----------------------------------------------------------------------------
(* The keyword rules followed by the dispatch of what they chose,             *)
(* src/src/agents/knowledge_agent.py                                        *)

\* a query waits for the keyword rules; its tools run afterwards
FallbackRunInit ==
    /\ CoreInit
    /\ call \in {[fn |-> "execute_tool", step |-> "analyse", query |-> text,
                  out |-> None, calls |-> <<>>, env |-> None] : text \in QueryTexts}

\* the keyword rules answer
ClassifyByKeywords ==
    /\ call.fn = "execute_tool"
    /\ call.step = "analyse"
    /\ call' = [call EXCEPT !.step = "execute", !.out = FallbackIntentAnalysis(call.query)]
    /\ UNCHANGED <<coreVars, upload, models, cache>>

\* execute_tool(intent) on the answer of the keyword rules, for a request that
\* requires tools
ExecuteClassified ==
    /\ call.fn = "execute_tool"
    /\ call.step = "execute"
    /\ Truthy(call.out.kv["requires_tools"])
    /\ \E q \in Queries :
       \E raws \in RawSeqs(call.out.kv["tool_category"].segs, q),
          exts \in ExtSeqs(call.out.kv["tool_category"].segs) :
          LET Executed(res) ==
                  call' = [call EXCEPT !.step = "done", !.calls = res.calls, !.env = res.env]
          IN  Executed(ExecuteTool(call.out.kv["tool_category"].segs, raws, exts,
                                   q, <<>>, clock))
    /\ UNCHANGED <<coreVars, upload, models, cache>>

SpecFallbackRun == FallbackRunInit /\ [][ClassifyByKeywords \/ ExecuteClassified]_vars

----------------------------------------------------------------------------
(* KnowledgeAgent._process_calendar_time,                                   *)
(* src/src/agents/knowledge_agent.py                                        *)

\* largest number written in a query
MaxHour == 25

\* dian (o'clock), xiawu (afternoon), shangwu (morning), mingtian (tomorrow),
\* houtian (the day after), jintian (today)
Dian == <<"u70b9">>
Xiawu == <<"u4e0b", "u5348">>
Shangwu == <<"u4e0a", "u5348">>
Mingtian == <<"u660e", "u5929">>
Houtian == <<"u540e", "u5929">>
Jintian == <<"u4eca", "u5929">>

\* text[i..] begins with word
StartsAt(text, i, word) ==
    /\ i + Len(word) - 1 <= Len(text)
    /\ SubSeq(text, i, i + Len(word) - 1) = word

\* text[i..] begins with n digits
DigitsAt(text, i, n) ==
    /\ i + n - 1 <= Len(text)
    /\ \A j \in i..(i + n - 1) : IsDigit(text[j])

\* the pattern  prefix(\d{1,2})mark  followed by tail more digits matches at i
\* with a first group of n digits
MatchesAt(text, i, prefix, mark, tail, n) ==
    /\ StartsAt(text, i, prefix)
    /\ DigitsAt(text, i + Len(prefix), n)
    /\ StartsAt(text, i + Len(prefix) + n, mark)
    /\ DigitsAt(text, i + Len(prefix) + n + Len(mark), tail)

\* re.search of that pattern: the leftmost match, the longer first group
\* first; [found, group1, group2]
Search(text, prefix, mark, tail) ==
    LET Hit(i) == \E n \in {1, 2} : MatchesAt(text, i, prefix, mark, tail, n)
        Groups(i, n) ==
            [found  |-> TRUE,
             group1 |-> IntOf(SubSeq(text, i + Len(prefix), i + Len(prefix) + n - 1)),
             group2 |-> IF tail = 0 THEN 0
                        ELSE IntOf(SubSeq(text, i + Len(prefix) + n + Len(mark),
                                          i + Len(prefix) + n + Len(mark) + tail - 1))]
        At(i) == Groups(i, IF MatchesAt(text, i, prefix, mark, tail, 2) THEN 2 ELSE 1)
    IN  IF \E i \in DOMAIN text : Hit(i)
        THEN At(CHOOSE i \in DOMAIN text : Hit(i) /\ \A j \in 1..(i - 1) : ~Hit(j))
        ELSE [found |-> FALSE, group1 |-> 0, group2 |-> 0]

\* the day the meeting is put on, counted from today
TargetDay(query) ==
    IF Contains(query, Mingtian) THEN 1
    ELSE IF Contains(query, Houtian) THEN 2
    ELSE IF Contains(query, Jintian) THEN 0
    ELSE 1

\* the loop over time_patterns: the first pattern, in the order of the list,
\* that matches gives hour and minute; 14:00 when none matches
HourMinute(query) ==
    LET Fourth(m) ==
            IF m.found
            THEN [hour   |-> m.group1 + (IF Contains(query, Xiawu) /\ m.group1 < 12
                                         THEN 12 ELSE 0),
                  minute |-> m.group2]
            ELSE [hour |-> 14, minute |-> 0]
        Third(m) ==
            IF m.found THEN [hour |-> m.group1, minute |-> 0]
            ELSE Fourth(Search(query, <<>>, <<":">>, 2))
        Second(m) ==
            IF m.found
            THEN [hour |-> IF m.group1 < 12 THEN m.group1 + 12 ELSE m.group1,
                  minute |-> 0]
            ELSE Third(Search(query, Shangwu, Dian, 0))
        First(m) ==
            IF m.found THEN [hour |-> m.group1, minute |-> 0]
            ELSE Second(Search(query, Xiawu, Dian, 0))
    IN  First(Search(query, <<>>, Dian, 0))

\* strftime("%Y-%m-%dT%H:%M:%S") of a datetime; day counts from today
IsoTime(day, hour, minute) ==
    [tag |-> "isotime", day |-> day, hour |-> hour, minute |-> minute]

\* start_dt + timedelta(hours=1)
HourLater(day, hour, minute) ==
    IF hour = 23 THEN IsoTime(day + 1, 0, minute) ELSE IsoTime(day, hour + 1, minute)

\* _process_calendar_time(params, query); datetime.replace raises ValueError
\* for an hour above 23 or a minute above 59
ProcessCalendarTime(params, query) ==
    LET Built(day, hm) ==
            IF hm.hour > 23 \/ hm.minute > 59
            THEN Raised("ValueError")
            ELSE Returned(D([start_time |-> IsoTime(day, hm.hour, hm.minute),
                             end_time   |-> HourLater(day, hm.hour, hm.minute)]
                            @@ params))
    IN  Built(TargetDay(query), HourMinute(query))

\* the queries about a time: a day, a half of the day, a number and what
\* follows the number, each of them there or not
TimeQueries ==
    {Concat(<<day, half, number, mark>>) :
        day \in {<<>>, Mingtian, Houtian, Jintian},
        half \in {<<>>, Xiawu, Shangwu},
        number \in {<<>>} \cup {Digits(n) : n \in 0..MaxHour},
        mark \in {<<>>, Dian, <<":", "3", "0">>}}

\* the parameters the model proposed for the meeting
ProposedTimes ==
    {[title |-> S("t1")],
     [title |-> S("t1"), start_time |-> S("s1"), end_time |-> S("e1")]}

\* a calendar create waits for its times
TimeInit ==
    /\ CoreInit
    /\ call \in {[fn |-> "_process_calendar_time", done |-> FALSE, params |-> p,
                  query |-> q, out |-> Returned(None)] :
                    p \in ProposedTimes, q \in TimeQueries}

\* the times are worked out
ProcessTime ==
    /\ call.fn = "_process_calendar_time"
    /\ ~call.done
    /\ call' = [call EXCEPT !.done = TRUE,
                            !.out = ProcessCalendarTime(call.params, call.query)]
    /\ UNCHANGED <<coreVars, upload, models, cache>>

----------------------------------------------------------------------------
(* Retrieval: VectorStore.search_similar, src/src/rag/vector_store.py, and  *)
(* DocumentRetriever.retrieve_documents, src/src/rag/retriever.py           *)

\* largest number of chunks in the index
MaxMatches == 3
\* largest n_results asked of the retriever
MaxResults == 2

\* similarity scores and thresholds, in hundredths
Scores == {10, 20, 42}
MinSimilarities == {15, 20}

\* the chunks of the index, nearest first: each a distance (in hundredths) and
\* the category of its metadata
Indexes ==
    UNION {[1..n -> [distance : {100 - s : s \in Scores}, category : {"hr", "tech"}]] :
              n \in 0..MaxMatches}

\* the first n elements of q
Take(q, n) == SubSeq(q, 1, IF n < Len(q) THEN n ELSE Len(q))

\* the positions of the chunks that pass the where filter, nearest first
Passing(index, where) ==
    SelectSeq([i \in DOMAIN index |-> i],
              LAMBDA i : where = None \/ S(index[i].category) = where.kv["category"])

\* collection.query(n_results=n, where=where): results["documents"], one list
\* of matches for the one query embedding; shape says how the engine answers
\* when nothing matches: with that one list empty, or with no list at all
CollectionQuery(index, n, where, shape) ==
    LET Answer(ids) ==
            IF ids = <<>> /\ shape = "no list"
            THEN L(<<>>)
            ELSE L(<<L([k \in DOMAIN ids |->
                          [id       |-> ids[k],
                           category |-> index[ids[k]].category,
                           distance |-> index[ids[k]].distance]])>>)
    IN  Answer(Take(Passing(index, where), n))

\* formatted_results of a list of matches: similarity_score = 1 - distance
Formatted(matches) ==
    [k \in DOMAIN matches |->
        [id               |-> matches[k].id,
         category         |-> matches[k].category,
         similarity_score |-> 100 - matches[k].distance,
         distance         |-> matches[k].distance]]

\* `if results["documents"] and len(results["documents"]) > 0:`
HasDocuments(documents) == Truthy(documents) /\ Len(documents.items) > 0

\* search_similar(query, n, where): [out |-> the list returned, queries |->
\* the queries put to the collection]; fails names what raises, if anything
SearchSimilar(index, n, where, shape, fails) ==
    LET Asked(w) == [where |-> w, n_results |-> n]
        Again(documents) ==
            [out     |-> IF HasDocuments(documents)
                         THEN Formatted(documents.items[1].items) ELSE <<>>,
             queries |-> <<Asked(where), Asked(None)>>]
        First(documents) ==
            IF HasDocuments(documents)
            THEN [out     |-> Formatted(documents.items[1].items),
                  queries |-> <<Asked(where)>>]
            ELSE IF Truthy(where)
            THEN Again(CollectionQuery(index, n, None, shape))
            ELSE [out |-> <<>>, queries |-> <<Asked(where)>>]
    IN  CASE fails = "embedding" -> [out |-> <<>>, queries |-> <<>>]
          [] fails = "query" -> [out |-> <<>>, queries |-> <<Asked(where)>>]
          [] OTHER -> First(CollectionQuery(index, n, where, shape))

\* a variant: a match has to be above the threshold
AboveThreshold(similarity_score, min_similarity) == similarity_score > min_similarity

\* `result["similarity_score"] >= min_similarity`
Qualifies(similarity_score, min_similarity) == similarity_score >= min_similarity

\* enriched_content of a match: source, category, similarity and content
Enriched(result) ==
    [tag |-> "block", id |-> result.id, category |-> result.category,
     similarity_score |-> result.similarity_score]

\* retrieve_documents(query, n_results, filter_category, min_similarity):
\* [out |-> the blocks returned, raw |-> what search_similar returned,
\*  queries |-> the queries put to the collection]; the metadata of a match
\* may be None, and metadata.get then raises
RetrieveDocuments(index, n_results, filter_category, min_similarity, shape, fails) ==
    LET Chosen(results) ==
            [k \in DOMAIN results |-> Enriched(results[k])]
        Filtered(search) ==
            [out     |-> IF fails = "metadata" /\ search.out # <<>>
                         THEN <<>>
                         ELSE Chosen(Take(SelectSeq(search.out,
                                 LAMBDA r : Qualifies(r.similarity_score, min_similarity)),
                                 n_results)),
             raw     |-> search.out,
             queries |-> search.queries]
    IN  Filtered(SearchSimilar(index, n_results * 4,
                               IF Truthy(filter_category)
                               THEN D([category |-> filter_category]) ELSE None,
                               shape, fails))

\* a retrieval waits to be made
RetrieveInit ==
    /\ CoreInit
    /\ call \in {[fn |-> "retrieve_documents", done |-> FALSE, index |-> ix,
                  n_results |-> n, filter_category |-> f, min_similarity |-> m,
                  shape |-> sh, fails |-> fl,
                  out |-> <<>>, raw |-> <<>>, queries |-> <<>>] :
                    ix \in Indexes, n \in 1..MaxResults, f \in {None, S("hr")},
                    m \in MinSimilarities, sh \in {"empty list", "no list"},
                    fl \in {"no", "embedding", "query", "metadata"}}

\* the retrieval is made
Retrieve ==
    /\ call.fn = "retrieve_documents"
    /\ ~call.done
    /\ LET Done(r) == [call EXCEPT !.done = TRUE, !.out = r.out, !.raw = r.raw,
                                   !.queries = r.queries]
       IN  call' = Done(RetrieveDocuments(call.index, call.n_results,
                            call.filter_category, call.min_similarity,
                            call.shape, call.fails))
    /\ UNCHANGED <<coreVars, upload, models, cache>>

----------------------------------------------------------------------------
(* Calls of SchedulingTool.execute, as test_all_tools.py makes them *)

\* the meeting lengths asked for, in minutes
Durations == {15, 30, 60, 90, 600}

\* the time ranges asked for: none, or two hours of the day
TimeRanges ==
    {None} \cup [start_hour : 0..LastHour, end_hour : 0..LastHour]

\* a scheduling request waits
ScheduleInit ==
    /\ CoreInit
    /\ call \in {[fn |-> "smart_scheduling", done |-> FALSE, duration_minutes |-> d,
                  time_range |-> tr, out |-> None] :
                    d \in Durations, tr \in TimeRanges}

\* the slots are worked out
Schedule ==
    /\ call.fn = "smart_scheduling"
    /\ ~call.done
    /\ call' = [call EXCEPT !.done = TRUE,
                   !.out = ScheduleMeeting(L(<<S("user1@example.com")>>),
                                           S("2024-01-15"), call.duration_minutes,
                                           call.time_range)]
    /\ UNCHANGED <<coreVars, upload, models, cache>>

----------------------------------------------------------------------------
(* The file tools on one file system *)

\* calls made on the file system, and the most bytes a file grows to
MaxFileOps == 3
MaxBytes == 5

\* the default of file_read's max_size
DefaultMaxSize == 1024000

\* the characters of the texts written: a letter, carriage return, line feed
\* and the character ce (U+6D4B)
FileChars == {"a", "CR", "LF", "u6D4B"}

\* str.encode("utf-8") of one character, as bytes in hexadecimal
Utf8 == [c \in FileChars |->
            CASE c = "a"     -> <<"61">>
              [] c = "CR"    -> <<"0D">>
              [] c = "LF"    -> <<"0A">>
              [] c = "u6D4B" -> <<"E6", "B5", "8B">>]

\* content.encode(encoding)
Encode(text) == Concat([i \in DOMAIN text |-> Utf8[text[i]]])

\* q starts with p
StartsWith(q, p) == Len(p) <= Len(q) /\ SubSeq(q, 1, Len(p)) = p

\* the utf-8 decoder of a text stream, on the bytes of whole characters
RECURSIVE Decode(_)
Decode(bytes) ==
    IF bytes = <<>> THEN <<>>
    ELSE LET Rest(c) == <<c>> \o Decode(SubSeq(bytes, Len(Utf8[c]) + 1, Len(bytes)))
         IN  Rest(CHOOSE c \in FileChars : StartsWith(bytes, Utf8[c]))

\* os.linesep of the platform the service runs on
LineSep == <<"LF">>

\* a text stream opened with newline=None, on write: every line feed becomes
\* os.linesep
WriteNewlines(text) ==
    Concat([i \in DOMAIN text |-> IF text[i] = "LF" THEN LineSep ELSE <<text[i]>>])

\* a text stream opened with newline=None, on read: the line endings CR LF
\* and CR become a line feed
RECURSIVE ReadNewlines(_)
ReadNewlines(text) ==
    IF text = <<>> THEN <<>>
    ELSE IF Head(text) = "CR"
    THEN <<"LF">> \o ReadNewlines(IF Len(text) > 1 /\ text[2] = "LF"
                                  THEN SubSeq(text, 3, Len(text))
                                  ELSE Tail(text))
    ELSE <<Head(text)>> \o ReadNewlines(Tail(text))

\* the files the tools are called on, each a directory and a name
TmpDir == <<"tmp">>
SubDir == <<"tmp", "sub">>
FilePaths ==
    {[dir |-> TmpDir, name |-> <<"a", ".", "t", "x", "t">>],
     [dir |-> SubDir, name |-> <<"b", ".", "m", "d">>]}
Directories == {TmpDir, SubDir}

NoFile == [there |-> FALSE, bytes |-> <<>>]
FileOf(bytes) == [there |-> TRUE, bytes |-> bytes]

\* a directory and the directories above it
Parents(dir) == {SubSeq(dir, 1, n) : n \in 1..Len(dir)}

\* fnmatch of a file name against a pattern with * and ?
RECURSIVE FnMatch(_, _)
FnMatch(pattern, name) ==
    IF pattern = <<>> THEN name = <<>>
    ELSE IF Head(pattern) = "*"
    THEN \/ FnMatch(Tail(pattern), name)
         \/ name # <<>> /\ FnMatch(pattern, Tail(name))
    ELSE /\ name # <<>>
         /\ Head(pattern) = "?" \/ Head(pattern) = Head(name)
         /\ FnMatch(Tail(pattern), Tail(name))

\* FileWriteTool.execute: the file system after the call and the result
FileWriteExecute(fs, file_path, content, append) ==
    [files |-> [fs.files EXCEPT ![file_path] =
                   FileOf((IF append THEN fs.files[file_path].bytes ELSE <<>>)
                              \o Encode(WriteNewlines(content)))],
     dirs  |-> fs.dirs \cup Parents(file_path.dir),
     out   |-> Returned([file_path |-> file_path,
                         bytes_written |-> Len(Encode(content)),
                         mode |-> IF append THEN "append" ELSE "write"])]

\* FileReadTool.execute
FileReadExecute(fs, file_path, max_size) ==
    IF ~fs.files[file_path].there THEN Raised("FileNotFoundError")
    ELSE IF Len(fs.files[file_path].bytes) > max_size THEN Raised("ValueError")
    ELSE Returned([file_path |-> file_path,
                   content |-> ReadNewlines(Decode(fs.files[file_path].bytes)),
                   file_size |-> Len(fs.files[file_path].bytes),
                   encoding |-> "utf-8"])

\* the pattern file_search hands to glob: the name pattern with the extension,
\* below "**/" when the search is recursive
GlobPattern(filename_pattern, file_extension, recursive) ==
    [deep |-> recursive,
     name |-> filename_pattern \o
                (IF file_extension = <<>> THEN <<>>
                 ELSE IF Head(file_extension) = "." THEN file_extension
                 ELSE <<".">> \o file_extension)]

\* FileSearchTool.execute; file_extension <<>> is no extension
FileSearchExecute(fs, directory, filename_pattern, file_extension, recursive) ==
    IF directory \notin fs.dirs THEN Raised("FileNotFoundError")
    ELSE LET Found(pattern) ==
                 {p \in FilePaths :
                     /\ fs.files[p].there
                     /\ IF pattern.deep THEN StartsWith(p.dir, directory)
                                        ELSE p.dir = directory
                     /\ FnMatch(pattern.name, p.name)}
         IN  Returned([files_found |->
                          Found(GlobPattern(filename_pattern, file_extension, recursive)),
                       search_directory |-> directory,
                       pattern |-> filename_pattern])

\* the texts written and the texts files hold at the start
Contents == {<<"a">>, <<"u6D4B", "LF">>, <<"a", "CR">>, <<"LF", "a">>}
NamePatterns == {<<"*">>, <<"*", ".", "t", "x", "t">>, <<"b", ".", "m", "d">>, <<"?">>}
Extensions == {<<>>, <<"t", "x", "t">>, <<".", "m", "d">>}
ReadLimits == {DefaultMaxSize, 2}

NoWrite == [op |-> "none"]

\* a temporary directory that may hold files written earlier
FilesInit ==
    /\ CoreInit
    /\ call \in {[fn |-> "file_tools", left |-> MaxFileOps, files |-> held,
                  dirs |-> {TmpDir} \cup UNION {Parents(p.dir) : p \in {q \in FilePaths : held[q].there}},
                  written |-> NoWrite, last |-> NoWrite] :
                    held \in [FilePaths -> {NoFile} \cup {FileOf(Encode(c)) : c \in {<<"a">>, <<"a", "CR">>}}]}

\* file_write is called
FileWrite ==
    /\ call.fn = "file_tools"
    /\ call.left > 0
    /\ \E file_path \in FilePaths, content \in Contents, append \in BOOLEAN :
          /\ Len(call.files[file_path].bytes) + Len(Encode(content)) <= MaxBytes
          /\ LET After(r) ==
                     call' = [call EXCEPT !.left = @ - 1, !.files = r.files, !.dirs = r.dirs,
                                 !.written = [op |-> "file_write", file_path |-> file_path,
                                              content |-> content, append |-> append,
                                              before |-> call.files[file_path]],
                                 !.last = [op |-> "file_write", out |-> r.out]]
             IN  After(FileWriteExecute(call, file_path, content, append))
    /\ UNCHANGED <<coreVars, upload, models, cache>>

\* file_read is called
FileRead ==
    /\ call.fn = "file_tools"
    /\ call.left > 0
    /\ \E file_path \in FilePaths, max_size \in ReadLimits :
          call' = [call EXCEPT !.left = @ - 1,
                      !.last = [op |-> "file_read", file_path |-> file_path,
                                max_size |-> max_size,
                                out |-> FileReadExecute(call, file_path, max_size)]]
    /\ UNCHANGED <<coreVars, upload, models, cache>>

\* file_search is called
FileSearch ==
    /\ call.fn = "file_tools"
    /\ call.left > 0
    /\ \E directory \in Directories, filename_pattern \in NamePatterns,
          file_extension \in Extensions, recursive \in BOOLEAN :
          call' = [call EXCEPT !.left = @ - 1,
                      !.last = [op |-> "file_search", directory |-> directory,
                                filename_pattern |-> filename_pattern,
                                file_extension |-> file_extension,
                                out |-> FileSearchExecute(call, directory, filename_pattern,
                                                          file_extension, recursive)]]
    /\ UNCHANGED <<coreVars, upload, models, cache>>

FilesNext == FileWrite \/ FileRead \/ FileSearch

SpecFiles == FilesInit /\ [][FilesNext]_vars

----------------------------------------------------------------------------
(* Calls on one CalendarEventTool, as test_all_tools.py makes them *)

Titles == {S("t1"), S("t2")}

\* keyword-argument maps: every map whose keys are a subset of DOMAIN vals
\* and whose value at k is drawn from vals[k]
KwArgs(vals) ==
    UNION {{f \in [K -> UNION {vals[k] : k \in K}] : \A k \in K : f[k] \in vals[k]}
           : K \in SUBSET DOMAIN vals}

\* ids a caller can name: those stored, the one the last call returned, and
\* one that was never issued
KnownIds ==
    {events[i].id : i \in DOMAIN events}
      \cup (IF "event_id" \in DOMAIN calResult.kw THEN {calResult.kw["event_id"]} ELSE {})
      \cup (IF ~calResult.out.raised /\ calResult.action = "create"
            THEN {calResult.out.value.kv["event_id"]} ELSE {})
      \cup {IdV(0, 0)}

CreateKw == KwArgs([title |-> Titles, start_time |-> {S("s1")}, end_time |-> {S("e1")}])

UpdateKw == KwArgs([event_id |-> KnownIds, title |-> Titles, location |-> {S("room")}])

DeleteKw == KwArgs([event_id |-> KnownIds])

CalInit ==
    /\ CoreInit
    /\ call = NoPureCall

\* one call of CalendarEventTool.execute(action, **kw) at the current clock reading
CalCall(action, kw) ==
    LET Called(r) ==
            /\ Len(r.events) <= MaxEvents
            /\ events' = r.events
            /\ calResult' = [action |-> action, kw |-> kw, out |-> r.out]
    IN  /\ Called(CalendarExecute(events, action, kw, clock))
        /\ UNCHANGED <<clock, flowVars, toolCall, restVars>>

CalCreate == \E kw \in CreateKw : CalCall("create", kw)

CalList == CalCall("list", EmptyMap)

CalUpdate == \E kw \in UpdateKw : CalCall("update", kw)

CalDelete == \E kw \in DeleteKw : CalCall("delete", kw)

CalOther == CalCall("archive", EmptyMap)

\* time passes between two calls
Tick ==
    /\ clock < MaxClock
    /\ clock' = clock + 1
    /\ UNCHANGED <<events, calResult, flowVars, toolCall, restVars>>

CalNext == CalCreate \/ CalList \/ CalUpdate \/ CalDelete \/ CalOther \/ Tick

SpecCal == CalInit /\ [][CalNext]_vars

----------------------------------------------------------------------------
(* The specifications *)

\* one chat request after another, each through the workflow
FlowNext ==
    \/ StartChat
    \/ QueryAnalysis
    \/ ActionExecution
    \/ DocumentRetrieval
    \/ ContextAssembly
    \/ ResponseGeneration
    \/ ContextIntegration
    \/ ErrorHandling
    \/ Tick

SpecFlow == CalInit /\ [][FlowNext]_vars

\* the nodes but action_execution
LightStep ==
    \/ QueryAnalysis
    \/ DocumentRetrieval
    \/ ContextAssembly
    \/ ResponseGeneration
    \/ ContextIntegration
    \/ ErrorHandling

\* the compiled graph runs a request's nodes one after the other until END:
\* ainvoke returns only then, so a node that is due runs.  The second conjunct
\* is WF_vars(ActionExecution) with its ENABLED written out: the node is
\* enabled exactly when it is the node due.
SpecFlowFair ==
    /\ SpecFlow
    /\ WF_vars(LightStep)
    /\ \/ []<>(node # "action_execution")
       \/ []<><<ActionExecution>>_vars

\* the service: chat requests and direct tool calls, one request at a time
\* (the two handlers share no mutable state: the chat path builds its own
\* tool collections, and only /tools/execute touches the process-wide ones)
Next == FlowNext \/ ApiExecuteTool

Spec == CalInit /\ [][Next]_vars

\* scheduling requests
SpecSchedule == ScheduleInit /\ [][Schedule]_vars

\* retrievals from a vector index
SpecRetrieve == RetrieveInit /\ [][Retrieve]_vars

\* the time normalization applied to a query
SpecTime == TimeInit /\ [][ProcessTime]_vars

\* the keyword rules applied to a query
SpecIntent == IntentInit /\ [][FallbackAnalysis]_vars

\* calls on one SimpleCache
SpecCache == CalInit /\ [][CacheNext]_vars

\* threads constructing the ModelManager and asking it for the clients
SpecModels == CalInit /\ [][ModelNext]_vars

\* the same threads, some of them calling clear_models()
SpecModelsClear == CalInit /\ [][ModelNext \/ ClearNext]_vars

\* uploads and their background indexing tasks
SpecUpload == CalInit /\ [][UploadNext]_vars


----------------------------------------------------------------------------
(* Claims about the chat workflow *)

NoErrorRecorded == ~Truthy(state.error)

RequiresTools == Truthy(Get(state.intent_analysis.kv, "requires_tools", B(FALSE)))

ToolPath == <<"query_analysis", "action_execution", "document_retrieval", "context_assembly">>

PlainPath == <<"query_analysis", "document_retrieval", "context_assembly",
               "response_generation">>

\* the nodes run so far are the first nodes of order, and the node about to
\* run is the one order names next (when order names one)
Follows(order) ==
    /\ \A i \in 1..Len(path) : i <= Len(order) => path[i] = order[i]
    /\ Len(path) < Len(order) => node = order[Len(path) + 1]

\* the last node that ran
LastNode == IF path = <<>> THEN "none" ELSE path[Len(path)]

\* the Action Records of the request
Actions == state.actions.items

\* the status of the request's Action Record, "none" when there is none
ActionStatus ==
    IF Actions = <<>> THEN "none" ELSE StrOf(Actions[1].kv["status"])

\* C1: while no error is recorded, a request whose intent requires tools runs
\* query_analysis, action_execution, document_retrieval, context_assembly in
\* that order, and a request whose intent does not runs query_analysis,
\* document_retrieval, context_assembly, response_generation and then ends,
\* never running action_execution.
C1_NodeOrder ==
    (node # "idle" /\ NoErrorRecorded)
    => IF RequiresTools
       THEN Follows(ToolPath)
       ELSE /\ Follows(PlainPath)
            /\ Len(path) <= Len(PlainPath)
            /\ Len(path) = Len(PlainPath) => node = "END"
            /\ "action_execution" \notin Range(path)

\* a request that required tools has run its four nodes without an error
C1_Witness ==
    /\ NoErrorRecorded
    /\ RequiresTools
    /\ Len(path) > Len(ToolPath)
    /\ node = "END"

RECURSIVE Unmasked(_)
Unmasked(v) ==
    CASE v.tag = "dict" ->
            \E k \in DOMAIN v.kv :
                IF KeyLower(k) \in SensitiveKeys THEN v.kv[k] # Mask
                ELSE Unmasked(v.kv[k])
      [] v.tag = "list" -> \E i \in DOMAIN v.items : Unmasked(v.items[i])
      [] OTHER -> FALSE

\* C3: in the tool_params of every Action Record no sensitive key, compared
\* in lower case, holds anything but the mask, at any depth of dictionaries
\* and lists.
C3_ParamsRedacted ==
    \A i \in DOMAIN Actions :
        "tool_params" \in DOMAIN Actions[i].kv => ~Unmasked(Actions[i].kv["tool_params"])

\* a completed action whose parameters held secrets under upper-case keys and
\* inside a list
C3_Witness ==
    /\ ActionStatus = "completed"
    /\ state.tool_result # None
    /\ Unmasked(state.tool_result.kv["tool_params"])
    /\ {"API_KEY", "headers", "sender_password"} \subseteq DOMAIN Actions[1].kv["tool_params"].kv

\* C4: no Action Record holds, anywhere in it (its result included), a
\* sensitive key with a value other than the mask.
C4_RecordRedacted == \A i \in DOMAIN Actions : ~Unmasked(Actions[i])

----------------------------------------------------------------------------
(* Claims about tool dispatch *)

\* an envelope: boolean success, tool_name, and result or error
IsEnvelope(v) ==
    /\ v.tag = "dict"
    /\ {"success", "tool_name"} \subseteq DOMAIN v.kv
    /\ v.kv["success"].tag = "bool"
    /\ IF v.kv["success"].b THEN "result" \in DOMAIN v.kv ELSE "error" \in DOMAIN v.kv

\* C5: a call of a collection's execute_tool, whatever the tool name and the
\* parameters, returns an envelope and does not raise.
C5_CollectionNeverRaises ==
    (toolCall.called /\ toolCall.dispatched)
    => (~toolCall.out.raised /\ IsEnvelope(toolCall.out.value))

\* the request is composite
Composite ==
    /\ state.intent_analysis.kv # EmptyMap
    /\ state.intent_analysis.kv["tool_category"].tag = "piped"
    /\ Len(state.intent_analysis.kv["tool_category"].segs) > 1

\* the listed categories, stripped
Listed ==
    [i \in DOMAIN state.intent_analysis.kv["tool_category"].segs |->
        Strip(state.intent_analysis.kv["tool_category"].segs[i])]

\* the listed categories that are in the tool map, in listed order
KnownListed == SelectSeq(Listed, LAMBDA c : c \in ToolCategories)

\* the categories of the steps the agent began, in order
StepsBegun ==
    LET begun == SelectSeq(run.calls, LAMBDA c : c.kind = "extract")
    IN  [i \in DOMAIN begun |-> begun[i].category]

\* the categories of the entries of composite_results
ResultCategories(action) ==
    LET entries == action.kv["result"].kv["composite_results"].items
    IN  [i \in DOMAIN entries |-> StrOf(entries[i].kv["category"])]

\* C6: a composite execution runs every listed category that is in the tool
\* map once, in listed order, whatever happened to the earlier ones, and the
\* composite_results it returns have one entry for each of them.
C6_EveryKnownCategory ==
    (run.ran /\ Composite)
    => /\ StepsBegun = KnownListed
       /\ ActionStatus = "completed" => ResultCategories(Actions[1]) = KnownListed

\* position of the first call of run.calls satisfying the test, 0 if none
FirstCall(Test(_)) ==
    IF \E i \in DOMAIN run.calls : Test(run.calls[i])
    THEN CHOOSE i \in DOMAIN run.calls :
            Test(run.calls[i]) /\ \A j \in 1..(i - 1) : ~Test(run.calls[j])
    ELSE 0

CalendarDispatch(c) == c.kind = "dispatch" /\ c.category = "calendar"
EmailExtract(c) == c.kind = "extract" /\ c.category = "email"
EmailSend(c) == c.kind = "dispatch" /\ c.category = "email" /\ c.detail = "email_send"

\* the parameters the e-mail step of the composite ran with
EmailStepParams ==
    LET entries == Actions[1].kv["result"].kv["composite_results"].items
        i == CHOOSE j \in DOMAIN entries : entries[j].kv["category"] = S("email")
    IN  entries[i].kv["tool_params"].kv

\* C7: for "calendar|email" the calendar step comes first and creates one
\* event at most; when it created one, the e-mail parameters come from the
\* meeting-aware composer and not from the generic extractor; when it created
\* none, the e-mail step still runs, with the generic extractor's parameters.
C7_CalendarThenEmail ==
    (run.ran /\ Composite /\ Listed = <<"calendar", "email">>)
    => /\ Len(run.events) <= 1
       /\ FirstCall(EmailExtract) # 0
       /\ FirstCall(EmailSend) # 0
       /\ FirstCall(CalendarDispatch) < FirstCall(EmailExtract)
       /\ \A i \in DOMAIN run.calls :
            EmailExtract(run.calls[i])
                => run.calls[i].detail = IF Len(run.events) = 1 THEN "meeting" ELSE "generic"
       /\ (Len(run.events) = 1 /\ ActionStatus = "completed")
            => /\ EmailStepParams["subject"] = Fmt(<<"invitation:", run.events[1].title>>)
               /\ EmailStepParams["to_addresses"] = L(<<QueryRecipient(state.query)>>)

\* the ids an unfiltered list answered with
ListedIds(envelope) ==
    {envelope.kv["result"].kv["events"].items[i].kv["id"] :
        i \in DOMAIN envelope.kv["result"].kv["events"].items}

\* the envelope is the answer to a calendar list
IsListAnswer(envelope) ==
    /\ envelope.tag = "dict"
    /\ Truthy(Get(envelope.kv, "success", None))
    /\ ResultField(envelope, "action") = S("list")

\* C8: an event created by a request is in the answer of every later
\* unfiltered calendar list, through chat or through /tools/execute, until it
\* is deleted: the list answered right after a chat request lists the events
\* that request created, and a list made by a chat request lists the events
\* of the process-wide calendar.
C8_SharedCalendar ==
    [][/\ (node = "END" /\ toolCall'.called /\ ~toolCall'.out.raised
              /\ IsListAnswer(toolCall'.out.value))
          => IdsOf(run.events) \subseteq ListedIds(toolCall'.out.value)
       /\ (node = "action_execution" /\ state'.tool_result # None
              /\ state'.tool_result.kv["tool_category"] = S("calendar")
              /\ IsListAnswer(state'.tool_result.kv["result"]))
          => IdsOf(events) \subseteq ListedIds(state'.tool_result.kv["result"])]_vars

\* the intent names one category, and the agent has no tools for it
SingleUnsupported ==
    /\ RequiresTools
    /\ state.intent_analysis.kv["tool_category"].tag = "piped"
    /\ Len(state.intent_analysis.kv["tool_category"].segs) = 1
    /\ state.intent_analysis.kv["tool_category"].segs[1] \notin ToolCategories

\* C19: execute_tool with the category "none", or with a single name that is
\* no tool family, returns a failure envelope with an error, and neither asks
\* the language model for parameters nor invokes a tool.
C19_UnsupportedCategory ==
    (run.ran /\ SingleUnsupported) =>
        /\ ActionStatus = "failed"
        /\ Actions[1].kv["error"] = S("unsupported tool type")
        /\ state.tool_result = None
        /\ run.calls = <<>>
        /\ run.events = <<>>

\* execute_tool has turned away a name other than "none"
C19_Witness ==
    /\ run.ran
    /\ SingleUnsupported
    /\ state.intent_analysis.kv["tool_category"].segs[1] # "none"
    /\ ActionStatus = "failed"

----------------------------------------------------------------------------
(* Claims about the calendar tool *)

\* the last call returned normally
CalOk == ~calResult.out.raised

\* the dict the last call returned
CalValue == calResult.out.value.kv

\* the ids of the stored events
StoredIds == {events[i].id : i \in DOMAIN events}

\* create with title, start_time and end_time returns "created" with an event
\* id, and the event is stored under that id
C9_Create ==
    (calResult.action = "create"
        /\ {"title", "start_time", "end_time"} \subseteq DOMAIN calResult.kw)
    => /\ CalOk
       /\ CalValue["status"] = S("created")
       /\ CalValue["event_id"].tag = "id"
       /\ CalValue["event_id"] \in StoredIds

\* an unfiltered list returns every stored event, in order
C9_List ==
    calResult.action = "list"
    => /\ CalOk
       /\ CalValue["events"] = L([i \in DOMAIN events |-> D(events[i])])

\* update returns "updated" and exactly the updatable fields that were supplied
C9_Update ==
    (calResult.action = "update" /\ CalOk)
    => /\ CalValue["status"] = S("updated")
       /\ Range(CalValue["updated_fields"].items)
            = {S(f) : f \in DOMAIN calResult.kw \cap Range(UpdatableFields)}

\* after a delete that returned "deleted" the id is unknown, so that a second
\* delete or an update with it fails with the not-found error
C9_Delete ==
    (calResult.action = "delete" /\ CalOk)
    => /\ CalValue["status"] = S("deleted")
       /\ CalValue["event_id"] \notin StoredIds

\* C9: the calendar lifecycle on one CalendarEventTool: create returns
\* "created" and an id under which the event is listed until it is deleted;
\* update returns "updated" with exactly the supplied updatable fields; delete
\* returns "deleted" and removes that event, after which the same id is not
\* found any more.
C9_Lifecycle == C9_Create /\ C9_List /\ C9_Update /\ C9_Delete

\* C10: the stored events have pairwise distinct ids after any sequence of
\* create, update and delete calls.
C10_UniqueIds ==
    \A i, j \in DOMAIN events : i # j => events[i].id # events[j].id

-----------------------------------------------------------------------------
(* Claims about uploads *)

\* the handler has just left its checks with a rejection
Rejecting == upload.pc = "check" /\ UploadChecks(upload.request).raised

\* C11: an upload whose extension is not allowed, or whose size is above the
\* maximum, is answered with HTTP 400, writes no file and schedules no task.
C11_Rejected400 ==
    [][Rejecting =>
          /\ upload'.response.status_code = 400
          /\ upload'.intake = upload.intake
          /\ upload'.tasks = upload.tasks]_vars

\* the task of upload `id`, as a set of at most one record
TaskOf(id) == {upload.tasks[i] : i \in {j \in DOMAIN upload.tasks : upload.tasks[j].id = id}}

\* a step of some background task
IndexStep == \E i \in DOMAIN upload.tasks : upload'.tasks[i] # upload.tasks[i]

\* C14: for an accepted upload the file is in the intake directory when the
\* task is scheduled; the "uploaded" response is produced while the task has
\* not begun; a task calls the vector store's add at most once, and only with
\* at least one chunk; a step of a task, failures included, changes neither
\* the response nor the stored files.
C14_AcceptedUpload ==
    [][/\ Len(upload'.tasks) > Len(upload.tasks) => upload.id \in upload.intake
       /\ (upload.pc = "respond" /\ upload'.pc = "idle") =>
             /\ upload'.response = Uploaded(upload.id)
             /\ \A t \in TaskOf(upload.id) : t.pc = "pending"
       /\ \A i \in DOMAIN upload'.tasks :
             /\ upload'.tasks[i].adds <= 1
             /\ upload'.tasks[i].adds = 1 => upload'.tasks[i].chunks >= 1
       /\ IndexStep =>
             /\ upload'.response = upload.response
             /\ upload'.intake = upload.intake]_vars

\* a task has swallowed a failure of the vector store after the "uploaded"
\* response, and another has added its chunks
C14_Witness ==
    /\ upload.response.detail = "uploaded"
    /\ \E i \in DOMAIN upload.tasks :
          /\ upload.tasks[i].adds = 1
          /\ upload.tasks[i].swallowed
          /\ upload.tasks[i].id \in upload.intake
    /\ \E i \in DOMAIN upload.tasks :
          /\ upload.tasks[i].pc = "done"
          /\ upload.tasks[i].adds = 0
          /\ upload.tasks[i].chunks = 0

-----------------------------------------------------------------------------
(* Claims about /tools/execute *)

\* the request just answered named a category that is not file, email or
\* calendar once lowercased
UnknownCategory ==
    /\ toolCall.called
    /\ CategoryLower(toolCall.request.tool_category) \notin ToolCategories

\* C12: a request to /tools/execute whose lowercased category is unknown is
\* answered with HTTP 400, and no tool is invoked.
C12_UnknownCategory400 ==
    UnknownCategory => (toolCall.status = 400 /\ ~toolCall.dispatched)

\* the request just answered named a known category and its tool's execute
\* raised, which safe_execute turned into a failure envelope
ToolFailed ==
    /\ toolCall.called
    /\ CategoryLower(toolCall.request.tool_category) \in ToolCategories
    /\ ~toolCall.out.raised
    /\ ~Truthy(toolCall.out.value.kv["success"])

\* C13: a request to /tools/execute with a known category whose tool fails (a
\* missing file, an unknown event id, a missing required parameter) is
\* answered with HTTP 500.
C13_ToolFailure500 == ToolFailed => toolCall.status = 500

-----------------------------------------------------------------------------
(* Claims about the ModelManager *)

\* C15: whatever the interleaving of the threads that construct
\* ModelManager() and call get_chat_model() and get_embedding_model(), one
\* instance is made, each client is built at most once, and all callers of
\* the same call get the same handle.
C15_Singleton ==
    /\ models.created <= 1
    /\ \A k \in {"chat", "embedding"} : models.built[k] <= 1
    /\ \A op \in ModelOps : Cardinality(models.returned[op]) <= 1
    /\ models.returned["construct"] \subseteq {models.instance}
    /\ \A k \in {"chat", "embedding"} : models.returned[k] \subseteq {models.client[k]}

\* two threads found the same client missing: one has built it and handed
\* it to its caller, the other now holds the lock and is about to look again
C15_Witness ==
    \E t \in Workers :
        /\ models.threads[t].pc = "get_inner"
        /\ models.client[models.threads[t].op] # 0
        /\ models.returned[models.threads[t].op] # {}
        /\ models.returned["construct"] # {}

-----------------------------------------------------------------------------
(* Claims about the SimpleCache *)

\* the step is a call of op that changed the cache or its answer
CacheStep(op) == cache'.last.op = op /\ cache' # cache

\* the entries other than the one under cache_key
OtherEntries(entries, cache_key) == {e \in Range(entries) : e.key # cache_key}

\* C16: get(k) returns the value last set under k's key when the entry is
\* there and its age is at most the TTL; when its age is above the TTL, get
\* returns no value and removes that entry and no other; get never returns a
\* value older than the TTL.
C16_GetWithinTtl ==
    [][CacheStep("get") =>
          LET Held(i, key) ==
                  /\ (i # 0 /\ cache.now - cache.entries[i].timestamp <= Ttl) =>
                        /\ cache'.last.value = cache.latest[key]
                        /\ cache'.last.value \in CacheValues
                        /\ cache'.entries = cache.entries
                  /\ (i # 0 /\ cache.now - cache.entries[i].timestamp > Ttl) =>
                        /\ cache'.last.value = "None"
                        /\ Len(cache'.entries) = Len(cache.entries) - 1
                        /\ IndexOf(cache'.entries, key) = 0
                        /\ OtherEntries(cache'.entries, key)
                              = OtherEntries(cache.entries, key)
                  /\ cache'.last.value # "None" =>
                        /\ i # 0
                        /\ cache.now - cache.entries[i].timestamp <= Ttl
          IN  Held(IndexOf(cache.entries, cache'.last.key), cache'.last.key)]_vars

\* a get has just removed an expired entry and left a younger one in place
C16_Witness ==
    /\ cache.last.op = "get"
    /\ cache.last.path = "expired"
    /\ cache.latest[cache.last.key] \in CacheValues
    /\ \E i \in DOMAIN cache.entries : cache.now - cache.entries[i].timestamp <= Ttl

\* C17: a set on a cache that holds max_size entries removes exactly one
\* entry, one with the smallest timestamp, and then adds the new one; the
\* number of entries never exceeds max_size, whatever the calls.
C17_EvictOldest ==
    [][/\ Len(cache'.entries) <= MaxSize
       /\ (CacheStep("set") /\ Len(cache.entries) = MaxSize) =>
             \E i \in DOMAIN cache.entries :
                 /\ \A j \in DOMAIN cache.entries :
                       cache.entries[i].timestamp <= cache.entries[j].timestamp
                 /\ cache'.entries = Put(RemoveAt(cache.entries, i), cache'.last.key,
                                         cache'.last.value, cache.now)]_vars

\* a set on a full cache has just evicted the older of two entries of
\* different age
C17_Witness ==
    /\ cache.last.op = "set"
    /\ cache.last.path = "evicted"
    /\ cache.last.removed = 1
    /\ Len(cache.entries) = MaxSize
    /\ \E i \in DOMAIN cache.entries : cache.entries[i].timestamp < cache.now

-----------------------------------------------------------------------------
(* Claims about the keyword rules *)

\* the keywords of a tool family
FamilyKeywords(family) ==
    CASE family = "file" -> FileKeywords
      [] family = "email" -> EmailKeywords
      [] family = "calendar" -> CalendarKeywords

\* the families with a keyword in the text, in the order file, email, calendar
MatchedFamilies(text) ==
    SelectSeq(<<"file", "email", "calendar">>,
              LAMBDA f : \E k \in FamilyKeywords(f) : Contains(text, k))

\* the keyword rules have answered
Classified == call.fn = "_fallback_intent_analysis" /\ call.done

\* C18: the keyword rules answer requires_tools true exactly when a family
\* matches the lowercased query; tool_category "none" exactly when none does,
\* otherwise the matched families joined by "|"; intent_type "task" exactly
\* when requires_tools; confidence 0.7 with tools and 0.8 without; category
\* "general".
C18_FallbackFields ==
    Classified =>
        LET Fields(kv, matched) ==
                /\ kv["requires_tools"] = B(matched # <<>>)
                /\ (kv["tool_category"] = Piped(<<"none">>)) <=> (matched = <<>>)
                /\ matched # <<>> => kv["tool_category"] = Piped(matched)
                /\ (kv["intent_type"] = S("task")) <=> Truthy(kv["requires_tools"])
                /\ kv["confidence"] = IF Truthy(kv["requires_tools"])
                                      THEN Tenths(7) ELSE Tenths(8)
                /\ kv["category"] = S("general")
        IN  Fields(call.out.kv, MatchedFamilies(Lower(call.query)))

\* a query matched two families, one of them only once lowercased
C18_Witness ==
    /\ Classified
    /\ Lower(call.query) # call.query
    /\ ~(\E k \in EmailKeywords : Contains(call.query, k))
    /\ call.out.kv["tool_category"] = Piped(<<"email", "calendar">>)

-----------------------------------------------------------------------------
(* Claims about the time normalization *)

\* the times have been worked out
Normalized == call.fn = "_process_calendar_time" /\ call.done

\* the query has none of the four time patterns
NoTimePattern ==
    /\ ~Search(call.query, <<>>, Dian, 0).found
    /\ ~Search(call.query, <<>>, <<":">>, 2).found

\* C20: a query with xiawu N dian, N < 12, gets the start hour N + 12; one
\* with shangwu N dian gets the start hour N; one without a time pattern gets
\* 14:00; end_time is start_time plus one hour.
C20_TimeNormalized ==
    Normalized =>
        /\ \A n \in 0..11 :
              Contains(call.query, Xiawu \o Digits(n) \o Dian) =>
                  /\ ~call.out.raised
                  /\ call.out.value.kv["start_time"].hour = n + 12
        /\ \A n \in 0..23 :
              Contains(call.query, Shangwu \o Digits(n) \o Dian) =>
                  /\ ~call.out.raised
                  /\ call.out.value.kv["start_time"].hour = n
        /\ NoTimePattern =>
              /\ ~call.out.raised
              /\ call.out.value.kv["start_time"].hour = 14
              /\ call.out.value.kv["start_time"].minute = 0
        /\ ~call.out.raised =>
              LET OneHour(s, e) ==
                      /\ e.minute = s.minute
                      /\ (e.day * 24 + e.hour) = (s.day * 24 + s.hour) + 1
              IN  OneHour(call.out.value.kv["start_time"],
                          call.out.value.kv["end_time"])

-----------------------------------------------------------------------------
(* Claims about retrieval *)

\* the retrieval has been made
Retrieved == call.fn = "retrieve_documents" /\ call.done

\* the raw matches at or above the threshold, in the order of the store
QualifyingRaw ==
    SelectSeq(call.raw, LAMBDA r : r.similarity_score >= call.min_similarity)

\* C21: retrieve_documents asks the store for 4 x n_results matches and
\* returns at most n_results blocks: the first n_results raw matches whose
\* score is at least min_similarity, in the order of the store, and none
\* below it; an exception inside gives the empty list.
C21_RetrieveFiltered ==
    Retrieved =>
        /\ \A i \in DOMAIN call.queries :
              call.queries[i].n_results = 4 * call.n_results
        /\ Len(call.out) <= call.n_results
        /\ \A i \in DOMAIN call.out :
              /\ call.out[i].similarity_score >= call.min_similarity
              /\ i <= Len(QualifyingRaw)
              /\ call.out[i].id = QualifyingRaw[i].id
              /\ call.out[i].similarity_score = QualifyingRaw[i].similarity_score
        /\ call.fails = "no" =>
              Len(call.out) = IF Len(QualifyingRaw) < call.n_results
                              THEN Len(QualifyingRaw) ELSE call.n_results
        /\ call.fails # "no" => call.out = <<>>

\* the store returned the scores 0.42, 0.20, 0.10 and the threshold 0.20 kept
\* the first two
C21_Witness ==
    /\ Retrieved
    /\ call.fails = "no"
    /\ call.min_similarity = 20
    /\ [i \in DOMAIN call.raw |-> call.raw[i].similarity_score] = <<42, 20, 10>>
    /\ [i \in DOMAIN call.out |-> call.out[i].id] = <<1, 2>>

\* the first query of the search had a filter and matched nothing
FilteredNoMatch ==
    /\ Retrieved
    /\ call.fails = "no"
    /\ call.filter_category # None
    /\ Passing(call.index, D([category |-> call.filter_category])) = <<>>

\* C22: a search with a filter that matches nothing (the engine answers with
\* an empty list of matches for the query) is made once more without the
\* filter, and what that second query finds is returned; a search without a
\* filter is made once.
C22_RetryWithoutFilter ==
    /\ (FilteredNoMatch /\ call.shape = "empty list") =>
          /\ Len(call.queries) = 2
          /\ call.queries[2].where = None
          /\ [i \in DOMAIN call.raw |-> call.raw[i].id]
                = Take([i \in DOMAIN call.index |-> i], 4 * call.n_results)
    /\ (Retrieved /\ call.filter_category = None) => Len(call.queries) <= 1

-----------------------------------------------------------------------------
(* Claims about the scheduling tool *)

\* the slots have been worked out for a range with start_hour < end_hour
Scheduled ==
    /\ call.fn = "smart_scheduling"
    /\ call.done
    /\ call.time_range # None
    /\ call.time_range.start_hour < call.time_range.end_hour

\* minutes after midnight of a clock text hh:mm:00
MinuteOfDay(text) == IntOf(SubSeq(text, 1, 2)) * 60 + IntOf(SubSeq(text, 4, 5))

\* the starts h:00 and h:30, h from start_hour up to end_hour - 1, that leave
\* room for the duration before end_hour:00, ascending, in minutes of the day
CandidateStarts(start_hour, end_hour, duration_minutes) ==
    SelectSeq([k \in 1..(2 * (end_hour - start_hour)) |->
                  (start_hour + ((k - 1) \div 2)) * 60 + 30 * ((k - 1) % 2)],
              LAMBDA t : t + duration_minutes <= end_hour * 60)

\* the starts of a list of slots, in minutes of the day
StartsOf(slots) == [i \in DOMAIN slots |-> MinuteOfDay(slots[i].kv["start_time"].clock)]

\* C23: for start_hour < end_hour and a positive duration the candidate slots
\* are the starts h:00 and h:30 of the range that end by end_hour:00, in
\* ascending order; total_available counts them, available_slots is the first
\* five of them at most, and recommended_slot is the first candidate before
\* 12:00 if there is one, else the first candidate, else None.
C23_CandidateSlots ==
    Scheduled =>
        LET Expected(kv, starts) ==
                /\ kv["total_available"] = I(Len(starts))
                /\ StartsOf(kv["available_slots"].items)
                      = SubSeq(starts, 1, IF Len(starts) < 5 THEN Len(starts) ELSE 5)
                /\ starts = <<>> => kv["recommended_slot"] = None
                /\ starts # <<>> =>
                      MinuteOfDay(kv["recommended_slot"].kv["start_time"].clock)
                         = IF \E i \in DOMAIN starts : starts[i] < 12 * 60
                           THEN starts[CHOOSE i \in DOMAIN starts :
                                          /\ starts[i] < 12 * 60
                                          /\ \A j \in 1..(i - 1) : starts[j] >= 12 * 60]
                           ELSE starts[1]
        IN  Expected(call.out.kv,
                     CandidateStarts(call.time_range.start_hour,
                                     call.time_range.end_hour, call.duration_minutes))

\* more than five candidates, none of them in the morning, the last of them
\* ending at the end of the range
C23_Witness ==
    /\ Scheduled
    /\ call.out.kv["total_available"].n > 5
    /\ Len(call.out.kv["available_slots"].items) = 5
    /\ MinuteOfDay(call.out.kv["recommended_slot"].kv["start_time"].clock) >= 12 * 60
    /\ call.time_range.end_hour = LastHour
    /\ call.duration_minutes = 90

-----------------------------------------------------------------------------
(* Claims about the file tools *)

\* file_read with the default max_size has just been called on the file of
\* the latest file_write
ReadAfterWrite ==
    /\ call.fn = "file_tools"
    /\ call.written # NoWrite
    /\ call.last.op = "file_read"
    /\ call.last.file_path = call.written.file_path
    /\ call.last.max_size = DefaultMaxSize

\* file_search has just been called on the directory of the latest file_write,
\* with a pattern that matches the name of the file and no extension
SearchAfterWrite ==
    /\ call.fn = "file_tools"
    /\ call.written # NoWrite
    /\ call.last.op = "file_search"
    /\ call.last.directory = call.written.file_path.dir
    /\ call.last.file_extension = <<>>
    /\ FnMatch(call.last.filename_pattern, call.written.file_path.name)

\* C24: file_read after a file_write with append=false returns exactly the
\* content written, whatever the file held before; after a file_write with
\* append=true it returns the content read before the write followed by the
\* content written; file_search on the directory of the file written, with a
\* pattern matching its name, lists the file.
C24_FileRoundTrip ==
    /\ ReadAfterWrite /\ ~call.written.append =>
          /\ ~call.last.out.raised
          /\ call.last.out.value.content = call.written.content
    /\ ReadAfterWrite /\ call.written.append =>
          /\ ~call.last.out.raised
          /\ call.last.out.value.content =
                ReadNewlines(Decode(call.written.before.bytes)) \o call.written.content
    /\ SearchAfterWrite =>
          /\ ~call.last.out.raised
          /\ call.written.file_path \in call.last.out.value.files_found

\* the part of C24 about file_search alone
FileSearchFindsWritten ==
    SearchAfterWrite =>
        /\ ~call.last.out.raised
        /\ call.written.file_path \in call.last.out.value.files_found

\* the parts of C24 about file_read, for contents without a carriage return
RoundTripWithoutCarriageReturn ==
    /\ ReadAfterWrite
    /\ \A i \in DOMAIN call.written.content : call.written.content[i] # "CR"
    /\ \A i \in DOMAIN Decode(call.written.before.bytes) :
          Decode(call.written.before.bytes)[i] # "CR"
    => /\ ~call.last.out.raised
       /\ call.last.out.value.content =
             (IF call.written.append THEN Decode(call.written.before.bytes) ELSE <<>>)
                \o call.written.content

-----------------------------------------------------------------------------
(* Claims about the workflow's errors and its end *)

\* the workflow of a chat request has ended
Ended == node = "END" /\ path # <<>>

\* C25: an execution in which a node recorded a non-empty error passed
\* through error_handling before it ended, and its reply is the error message
\* error_handling makes of that error.
C25_ErrorsHandled ==
    Ended /\ Truthy(state.error) =>
        /\ \E i \in DOMAIN path : path[i] = "error_handling"
        /\ state.response = Fmt(<<"error:", state.error>>)

\* the part of C25 that holds: an error recorded by any node but
\* context_integration is handled
ErrorsBeforeIntegrationHandled ==
    Ended /\ Truthy(state.error) /\ path[Len(path)] # "context_integration" =>
        /\ path[Len(path)] = "error_handling"
        /\ state.response = Fmt(<<"error:", state.error>>)

\* the nodes run so far and the node that is due
Visited == IF node \in {"idle", "END"} THEN path ELSE Append(path, node)

\* a chat request is being worked on
Running == node \notin {"idle", "END"}

\* C26: every workflow execution terminates: whatever the intent analysis and
\* the failures of the nodes, no node runs twice in a request,
\* action_execution never follows response_generation, and END is reached
\* after at most six nodes.
C26_Terminates ==
    /\ [](/\ \A i, j \in DOMAIN Visited : Visited[i] = Visited[j] => i = j
          /\ \A i \in DOMAIN Visited :
                i > 1 /\ Visited[i] = "action_execution"
                   => Visited[i - 1] # "response_generation"
          /\ Len(path) <= 6)
    /\ (Running ~> Ended)

\* a request with tools that ended after six nodes, response_generation
\* among them
C26_Witness ==
    /\ Ended
    /\ Len(path) = 6
    /\ Truthy(Get(state.intent_analysis.kv, "requires_tools", B(FALSE)))
    /\ \E i \in DOMAIN path : path[i] = "response_generation"
    /\ \E i \in DOMAIN path : path[i] = "action_execution"

-----------------------------------------------------------------------------
(* Claims about the Action Record of a failed tool *)

\* the request names a single tool category
SingleCategory ==
    /\ state.intent_analysis.tag = "dict"
    /\ "tool_category" \in DOMAIN state.intent_analysis.kv
    /\ state.intent_analysis.kv["tool_category"].tag = "piped"
    /\ Len(state.intent_analysis.kv["tool_category"].segs) = 1

\* the envelope safe_execute made says the tool succeeded
ToolSucceeded(envelope) ==
    /\ envelope.tag = "dict"
    /\ "success" \in DOMAIN envelope.kv
    /\ envelope.kv["success"] = B(TRUE)

\* C27: the Action Record of a request with a single tool category has status
\* completed only if the envelope of the dispatched tool has success=true; a
\* tool whose execute raised leaves an Action Record with status failed.
C27_CompletedOnlyOnSuccess ==
    SingleCategory =>
        \A i \in DOMAIN state.actions.items :
            state.actions.items[i].kv["status"] = S("completed")
               => ToolSucceeded(state.actions.items[i].kv["result"])

-----------------------------------------------------------------------------
(* Claims about the composite the keyword rules choose *)

\* the keyword rules matched the calendar and the e-mail family, and the tools
\* they chose have run
BothFamiliesRun ==
    /\ call.fn = "execute_tool"
    /\ call.step = "done"
    /\ AnyKeyword(CalendarKeywords, Lower(call.query))
    /\ AnyKeyword(EmailKeywords, Lower(call.query))

\* C28: when the keyword rules match both the calendar and the e-mail family,
\* the composite executor runs the calendar step before the e-mail step: the
\* calendar tool is dispatched before the e-mail parameters are extracted.
C28_CalendarBeforeEmail ==
    BothFamiliesRun =>
        \E i, j \in DOMAIN call.calls :
            /\ i < j
            /\ call.calls[i].kind = "dispatch" /\ call.calls[i].category = "calendar"
            /\ call.calls[j].kind = "extract" /\ call.calls[j].category = "email"

\* what the code does instead: the e-mail step runs first, on the generic
\* extraction
EmailBeforeCalendar ==
    BothFamiliesRun =>
        /\ call.calls[1] = Call("extract", "email", "generic")
        /\ \A i \in DOMAIN call.calls :
              call.calls[i].category = "email" => call.calls[i].detail # "meeting"

-----------------------------------------------------------------------------
(* Claims about ModelManager and clear_models *)

\* some call of clear_models() has started
ClearCalled ==
    \E t \in Workers : models.threads[t].op = "clear"

\* a clear_models() call is about to return and no getter is under way
ClearedAlone ==
    \E t \in Workers :
        /\ models.threads[t].pc = "clear_unlock"
        /\ \A u \in Threads \ {t} : models.threads[u].pc = "idle"

\* C29: get_chat_model() and get_embedding_model() never return None, under
\* any interleaving with clear_models() calls of other threads; when
\* clear_models() completes with no getter under way, both clients are not
\* loaded.
C29_GettersNeverNone ==
    /\ \A kind \in {"chat", "embedding"} : 0 \notin models.returned[kind]
    /\ ClearedAlone => \A kind \in {"chat", "embedding"} : models.client[kind] = 0

\* the part of C29 that holds: clear_models() alone leaves both clients not
\* loaded
ClearedAloneNotLoaded ==
    ClearedAlone => \A kind \in {"chat", "embedding"} : models.client[kind] = 0

-----------------------------------------------------------------------------
(* Claims about SimpleCache.set on a key already present *)

\* the keys of the cache
KeysOf(entries) == {entries[i].key : i \in DOMAIN entries}

\* this step is a set() for a key the cache holds
SetPresentKey ==
    /\ cache'.last.op = "set"
    /\ cache'.now = cache.now
    /\ cache'.last.key \in KeysOf(cache.entries)

\* C30: set() for a key already present replaces the value and the timestamp
\* of that key and removes no other entry, also when the cache holds max_size
\* entries: the keys are the same before and after the call.
C30_SetKeepsKeys ==
    [][SetPresentKey =>
          /\ KeysOf(cache'.entries) = KeysOf(cache.entries)
          /\ \E i \in DOMAIN cache'.entries :
                /\ cache'.entries[i].key = cache'.last.key
                /\ cache'.entries[i].value = cache'.last.value
                /\ cache'.entries[i].timestamp = cache.now]_vars

\* the part of C30 that holds: below max_size the keys stay and the entry is
\* replaced
SetBelowCapacityKeepsKeys ==
    [][SetPresentKey /\ ~AtCapacity(Len(cache.entries)) =>
          /\ KeysOf(cache'.entries) = KeysOf(cache.entries)
          /\ \E i \in DOMAIN cache'.entries :
                /\ cache'.entries[i].key = cache'.last.key
                /\ cache'.entries[i].value = cache'.last.value
                /\ cache'.entries[i].timestamp = cache.now]_vars

=============================================================================
